---- MODULE Spec2Model ----
(***************************************************************************)
(* A model of azure-policy-mcp: the TTL/LRU CacheManager, the GitHub       *)
(* client and the MCP server tools that memoize through it, and the        *)
(* PolicyParser.                                                           *)
(***************************************************************************)
EXTENDS Integers, Sequences, FiniteSets, TLC

VARIABLES
    cache,      \* CacheManager.cache: the Map's entries, in insertion order
    now,        \* Date.now()
    last,       \* the last CacheManager call: its name, arguments and result
    track,      \* a get that hit, and the entries stored then and not read since
    pending,    \* the calls that are awaiting an upstream response
    requests,   \* the number of upstream requests issued so far
    call,       \* the last call of a memoized lookup: what it found and did
    refreshed,  \* the search keys that were cached when refresh_data_sources ran
    parsed,     \* the last call of the PolicyParser: its arguments and outcome
    extracted,  \* the last call of the TemplateIndexer on a file or an index
    indexing    \* the run of indexTemplates: its batch, its tasks, its index

vars ==
    <<cache, now, last, track, pending, requests, call, refreshed, parsed, extracted,
      indexing>>

cacheGhost == <<last, track>>
clientVars == <<pending, requests, call, refreshed>>
cacheVars == <<cache, now, cacheGhost, clientVars>>
analysisVars == <<parsed, extracted>>

(***************************************************************************)
(* JavaScript values.  Every value is a record tagged by its type, so that *)
(* truthiness, ?? and typeof are computed as the runtime computes them.    *)
(***************************************************************************)
Undefined == [t |-> "undefined"]
Null == [t |-> "null"]
Str(s) == [t |-> "string", s |-> s]
Num(n) == [t |-> "number", n |-> n]
Bool(b) == [t |-> "boolean", b |-> b]
Arr(a) == [t |-> "array", a |-> a]
Obj(f) == [t |-> "object", f |-> f]

\* ToBoolean: undefined, null, false, 0 and "" are falsy; objects and arrays
\* (the empty ones included) are truthy.
Truthy(v) ==
    CASE v.t = "undefined" -> FALSE
      [] v.t = "null" -> FALSE
      [] v.t = "boolean" -> v.b
      [] v.t = "number" -> v.n # 0
      [] v.t = "string" -> v.s # ""
      [] OTHER -> TRUE

\* a ?? b
Nullish(v) == v.t \in {"undefined", "null"}

(***************************************************************************)
(* Bounds of the model.                                                    *)
(***************************************************************************)
MaxSize == 2        \* the maxSize the cache is constructed with
DefaultTtl == 1     \* the defaultTtl the cache is constructed with
MaxTime == 2        \* the clock runs from 0 to MaxTime

Keys == {"", "a", "b"}
Values == {Num(0), Str("v")}
Ttls == {Undefined, Num(0)}

(***************************************************************************)
(* The Map<string, CacheEntry>: a sequence of entries with distinct keys,  *)
(* in insertion order.                                                     *)
(***************************************************************************)
MapKeys(c) == {c[i].key : i \in 1..Len(c)}

MapHas(c, k) == k \in MapKeys(c)

MapIndex(c, k) == CHOOSE i \in 1..Len(c) : c[i].key = k

MapGet(c, k) == c[MapIndex(c, k)]

\* Map.prototype.delete: the other entries keep their order.
MapDelete(c, k) == SelectSeq(c, LAMBDA e : e.key # k)

\* Map.prototype.set: an existing key keeps its place; a new key goes last.
MapSet(c, e) ==
    IF MapHas(c, e.key)
    THEN [i \in 1..Len(c) |-> IF c[i].key = e.key THEN e ELSE c[i]]
    ELSE Append(c, e)

\* An expiry test that also expires an entry at the boundary now - t = ttl.
ExpiredAtBoundary(e, t) == t - e.timestamp >= e.ttl

\* Date.now() - entry.timestamp > entry.ttl
Expired(e, t) == t - e.timestamp > e.ttl

(***************************************************************************)
(* CacheManager (infrastructure/cache/cache-manager.ts).  Each method is   *)
(* an operator from the Map before the call (and the clock) to the Map     *)
(* after it and the value returned.                                        *)
(***************************************************************************)
CacheEntry(key, value, timestamp, ttl) ==
    [key |-> key, value |-> value, timestamp |-> timestamp, ttl |-> ttl]

\* const actualTtl = ttl ?? this.defaultTtl
ActualTtl(ttl) == IF Nullish(ttl) THEN DefaultTtl ELSE ttl.n

\* this.cache.keys().next().value
FirstKey(c) == IF Len(c) > 0 THEN Str(c[1].key) ELSE Undefined

\* if (this.cache.size >= this.maxSize) { if (firstKey) delete(firstKey) }
EvictOldest(c) ==
    IF Len(c) >= MaxSize
    THEN IF Truthy(FirstKey(c)) THEN MapDelete(c, FirstKey(c).s) ELSE c
    ELSE c

CacheManager_set(c, key, value, ttl, t) ==
    MapSet(EvictOldest(c), CacheEntry(key, value, t, ActualTtl(ttl)))

\* A get that renews the insertion time of the entry it returns.
GetAndRenew(c, key, t) ==
    IF ~MapHas(c, key)
    THEN [cache |-> c, res |-> Undefined]
    ELSE LET entry == MapGet(c, key) IN
         IF Expired(entry, t)
         THEN [cache |-> MapDelete(c, key), res |-> Undefined]
         ELSE [cache |-> MapSet(MapDelete(c, key), [entry EXCEPT !.timestamp = t]),
               res |-> entry.value]

CacheManager_get(c, key, t) ==
    IF ~MapHas(c, key)
    THEN [cache |-> c, res |-> Undefined]
    ELSE LET entry == MapGet(c, key) IN
         IF Expired(entry, t)
         THEN [cache |-> MapDelete(c, key), res |-> Undefined]
         ELSE [cache |-> MapSet(MapDelete(c, key), entry), res |-> entry.value]

CacheManager_has(c, key, t) ==
    IF ~MapHas(c, key)
    THEN [cache |-> c, res |-> Bool(FALSE)]
    ELSE IF Expired(MapGet(c, key), t)
         THEN [cache |-> MapDelete(c, key), res |-> Bool(FALSE)]
         ELSE [cache |-> c, res |-> Bool(TRUE)]

CacheManager_delete(c, key) ==
    [cache |-> MapDelete(c, key), res |-> Bool(MapHas(c, key))]

CacheManager_clear(c) == <<>>

\* A sweep that deletes while it iterates and so skips the entry that follows
\* each deleted one.
CleanupSkipping(c, t) ==
    SelectSeq(c, LAMBDA e :
        \/ ~Expired(e, t)
        \/ \E i \in 2..Len(c) : c[i] = e /\ Expired(c[i - 1], t))

\* keysToDelete is collected first, then each key is deleted.
CacheManager_cleanup(c, t) == SelectSeq(c, LAMBDA e : ~Expired(e, t))

CacheManager_size(c) == Len(c)

(***************************************************************************)
(* The calls of a CacheManager's users, in any interleaving: the methods   *)
(* are synchronous, so each call is one step.                              *)
(***************************************************************************)
\* last: the call, its result, and size() right before it.
Call(op, key, value, ttl, res) ==
    [op |-> op, key |-> key, value |-> value, ttl |-> ttl, res |-> res,
     before |-> CacheManager_size(cache)]

Set(k, v, ttl) ==
    /\ cache' = CacheManager_set(cache, k, v, ttl, now)
    /\ last' = Call("set", k, v, ttl, Undefined)
    /\ UNCHANGED now

Get(k) ==
    LET r == CacheManager_get(cache, k, now) IN
    /\ cache' = r.cache
    /\ last' = Call("get", k, Undefined, Undefined, r.res)
    /\ UNCHANGED now

Has(k) ==
    LET r == CacheManager_has(cache, k, now) IN
    /\ cache' = r.cache
    /\ last' = Call("has", k, Undefined, Undefined, r.res)
    /\ UNCHANGED now

Delete(k) ==
    LET r == CacheManager_delete(cache, k) IN
    /\ cache' = r.cache
    /\ last' = Call("delete", k, Undefined, Undefined, r.res)
    /\ UNCHANGED now

Clear ==
    /\ cache' = CacheManager_clear(cache)
    /\ last' = Call("clear", "", Undefined, Undefined, Undefined)
    /\ UNCHANGED now

Cleanup ==
    /\ cache' = CacheManager_cleanup(cache, now)
    /\ last' = Call("cleanup", "", Undefined, Undefined, Undefined)
    /\ UNCHANGED now

\* Time passes between calls.
Tick ==
    /\ now < MaxTime
    /\ now' = now + 1
    /\ last' = Call("tick", "", Undefined, Undefined, Undefined)
    /\ UNCHANGED cache

NoTrack == [on |-> FALSE, k |-> "", others |-> {}]

NoCall == [fn |-> "none", key |-> "", stored |-> FALSE, value |-> Undefined,
           hit |-> FALSE, res |-> Undefined, issued |-> 0, afterRefresh |-> FALSE]

\* No method of the PolicyParser has been called.
NoParse == [fn |-> "none", input |-> Undefined, id |-> Undefined,
            outcome |-> [threw |-> FALSE, error |-> "none", value |-> Undefined]]

\* No method of the TemplateIndexer has been called on a file or an index.
NoExtract == [fn |-> "none", input |-> Undefined, before |-> Undefined,
              after |-> Undefined, result |-> Undefined]

\* indexTemplates has not been called.  started, succeeded and merged are the
\* positions of the files whose task was started, gave a template, and was
\* merged into the index.
NotIndexing ==
    [stage |-> "idle", files |-> <<>>, i |-> 0, inflight |-> {}, results |-> <<>>,
     templates |-> <<>>, categories |-> <<>>, resourceTypes |-> <<>>,
     index |-> Undefined, started |-> {}, succeeded |-> {}, merged |-> {}]

Init ==
    /\ cache = <<>>
    /\ now = 0
    /\ last = Call("new", "", Undefined, Undefined, Undefined)
    /\ track = NoTrack
    /\ pending = {}
    /\ requests = 0
    /\ call = NoCall
    /\ refreshed = {}
    /\ parsed = NoParse
    /\ extracted = NoExtract
    /\ indexing = NotIndexing

Next ==
    \/ \E k \in Keys, v \in Values, ttl \in Ttls :
            Set(k, v, ttl) /\ UNCHANGED <<track, clientVars, analysisVars, indexing>>
    \/ \E k \in Keys : Get(k) /\ UNCHANGED <<track, clientVars, analysisVars, indexing>>
    \/ \E k \in Keys : Has(k) /\ UNCHANGED <<track, clientVars, analysisVars, indexing>>
    \/ \E k \in Keys : Delete(k) /\ UNCHANGED <<track, clientVars, analysisVars, indexing>>
    \/ Clear /\ UNCHANGED <<track, clientVars, analysisVars, indexing>>
    \/ Cleanup /\ UNCHANGED <<track, clientVars, analysisVars, indexing>>
    \/ Tick /\ UNCHANGED <<track, clientVars, analysisVars, indexing>>

Spec == Init /\ [][Next]_vars

(***************************************************************************)
(* The same calls, with a record of one get that hit: its key, and the     *)
(* keys of the entries that were stored at the time of the get, are still  *)
(* the same entries (not deleted, expired or cleared) and have not been    *)
(* read since.                                                             *)
(***************************************************************************)
LruKeys == {"a", "b", "c"}

\* The record after a call that took the Map from c to d.
Tracked(c, d, op) ==
    IF op.op = "get" /\ op.key # track.k /\ MapHas(d, op.key)
    THEN [track EXCEPT !.others = @ \ {op.key}]
    ELSE IF op.op = "set"
    THEN [track EXCEPT !.others = @ \cap MapKeys(d)]
    ELSE IF MapHas(c, track.k) /\ ~MapHas(d, track.k)
    THEN NoTrack
    ELSE [track EXCEPT !.others = @ \cap MapKeys(d)]

Follow == track' = IF track.on THEN Tracked(cache, cache', last') ELSE track

GetAndTrack(k) ==
    /\ Get(k)
    /\ \/ /\ MapHas(cache', k)
          /\ track' = [on |-> TRUE, k |-> k, others |-> MapKeys(cache) \ {k}]
       \/ Follow

NextLru ==
    \/ \E k \in LruKeys : Set(k, Str("v"), Undefined) /\ Follow /\ UNCHANGED <<clientVars, analysisVars, indexing>>
    \/ \E k \in LruKeys : GetAndTrack(k) /\ UNCHANGED <<clientVars, analysisVars, indexing>>
    \/ \E k \in LruKeys : Has(k) /\ Follow /\ UNCHANGED <<clientVars, analysisVars, indexing>>
    \/ \E k \in LruKeys : Delete(k) /\ Follow /\ UNCHANGED <<clientVars, analysisVars, indexing>>
    \/ Clear /\ Follow /\ UNCHANGED <<clientVars, analysisVars, indexing>>
    \/ Cleanup /\ Follow /\ UNCHANGED <<clientVars, analysisVars, indexing>>
    \/ Tick /\ Follow /\ UNCHANGED <<clientVars, analysisVars, indexing>>

SpecLru == Init /\ [][NextLru]_vars

(***************************************************************************)
(* GitHubClient and TemplateIndexer (services/github/github-client.ts,     *)
(* services/templates/template-indexer.ts): the lookups memoized through   *)
(* the CacheManager.  A call runs up to its first upstream request in one  *)
(* step; the response arrives in a later step.  Times are milliseconds.    *)
(***************************************************************************)
Hour == 3600000

RepoTtl == Hour                 \* this.cache.set(cacheKey, response, 3600000)
RawTtl == 24 * Hour             \* this.cache.set(cacheKey, content, 24 * 3600000)
IndexTtl == 6 * Hour            \* this.cache.set(cacheKey, index, 6 * 3600000)
TemplateIndexTtl == 4 * Hour    \* this.cache.set(cacheKey, index, 4 * 3600000)

\* The instants at which calls are made: each TTL's boundary and the
\* millisecond after it.
Instants ==
    {0, RepoTtl, RepoTtl + 1, TemplateIndexTtl, TemplateIndexTtl + 1, RawTtl, RawTtl + 1}

\* The quickstart-templates data source.
Config == [owner |-> "Azure", repo |-> "azure-quickstart-templates",
           branch |-> "master", basePath |-> "quickstarts"]

TemplatePath == "quickstarts/main.bicep"

RepoKey(path) ==
    "repo:" \o Config.owner \o "/" \o Config.repo \o "/" \o Config.branch \o "/" \o path
RawKey(path) ==
    "raw:" \o Config.owner \o "/" \o Config.repo \o "/" \o Config.branch \o "/" \o path
IndexKey == "index:" \o Config.owner \o "/" \o Config.repo \o "/" \o Config.branch
TemplateIndexKey ==
    "template-index:" \o Config.owner \o "/" \o Config.repo \o "/" \o Config.branch

\* What upstream answers: a directory listing (empty, or one template file),
\* a file's text (empty or not), or a failure.
TemplateFile ==
    Obj([name |-> Str("main.bicep"), path |-> Str(TemplatePath), type |-> Str("file")])
Listings == {Arr(<<>>), Arr(<<TemplateFile>>)}
Contents == {Str(""), Str("param location string")}
Failure == [t |-> "error"]

\* The record of a call of a memoized lookup.  stored: the cache held an
\* entry for the key, not expired, when the call was made; value: that
\* entry's value; hit: the call returned the cached value; issued: the
\* number of upstream requests the call issued before it returned or awaited.
Lookup(fn, key, hit, res, issued) ==
    [fn |-> fn, key |-> key,
     stored |-> MapHas(cache, key) /\ ~Expired(MapGet(cache, key), now),
     value |-> IF MapHas(cache, key) THEN MapGet(cache, key).value ELSE Undefined,
     hit |-> hit, res |-> res, issued |-> issued,
     afterRefresh |-> key \in refreshed]

MaxRequests == 3    \* the upstream requests of one run

\* getRepositoryContents, up to `await this.makeRequest(url)`.
GetRepositoryContents(path) ==
    LET key == RepoKey(path)
        r == CacheManager_get(cache, key, now) IN
    /\ cache' = r.cache
    /\ IF Truthy(r.res)
       THEN /\ call' = Lookup("getRepositoryContents", key, TRUE, r.res, 0)
            /\ UNCHANGED <<pending, requests>>
       ELSE /\ requests < MaxRequests
            /\ requests' = requests + 1
            /\ pending' = pending \cup {[fn |-> "getRepositoryContents", key |-> key]}
            /\ call' = Lookup("getRepositoryContents", key, FALSE, Undefined, 1)
    /\ UNCHANGED <<now, refreshed>>

\* getRawFileContent, up to `await fetch(url, ...)`.
GetRawFileContent(path) ==
    LET key == RawKey(path)
        r == CacheManager_get(cache, key, now) IN
    /\ cache' = r.cache
    /\ IF Truthy(r.res)
       THEN /\ call' = Lookup("getRawFileContent", key, TRUE, r.res, 0)
            /\ UNCHANGED <<pending, requests>>
       ELSE /\ requests < MaxRequests
            /\ requests' = requests + 1
            /\ pending' = pending \cup {[fn |-> "getRawFileContent", key |-> key]}
            /\ call' = Lookup("getRawFileContent", key, FALSE, Undefined, 1)
    /\ UNCHANGED <<now, refreshed>>

\* The response of a getRepositoryContents or getRawFileContent request:
\* the result is cached and returned, or the call throws GitHubApiError.
Respond(task, response) ==
    /\ task \in pending
    /\ task.fn \in {"getRepositoryContents", "getRawFileContent"}
    /\ response \in (IF task.fn = "getRepositoryContents" THEN Listings ELSE Contents)
                        \cup {Failure}
    /\ pending' = pending \ {task}
    /\ cache' = IF response = Failure
                THEN cache
                ELSE CacheManager_set(cache, task.key, response,
                        Num(IF task.fn = "getRepositoryContents" THEN RepoTtl ELSE RawTtl),
                        now)
    /\ UNCHANGED <<now, requests, call, refreshed>>

(***************************************************************************)
(* TemplateIndexer.indexTemplates over GitHubClient.indexRepository.  Each *)
(* operator runs the code from one point to the next upstream request (or  *)
(* to the return) on the Map c at time t, and gives the Map, the request   *)
(* awaited ("none" when the call returned), the number of requests issued  *)
(* and the result.                                                         *)
(***************************************************************************)
Ran(c, wait, issued, hit, res) ==
    [cache |-> c, wait |-> wait, issued |-> issued, hit |-> hit, res |-> res]

\* bicepExtensions.some(ext => file.name.endsWith(ext)) || file.name === ...
IsTemplateFile(file) ==
    file.f.name.s \in {"main.bicep", "azuredeploy.json", "mainTemplate.json"}

\* processTemplateFile's record for a file whose content was fetched.
Template(file, content) == Obj([path |-> file.f.path, content |-> content])

\* const index = {totalTemplates, templates, ...}; this.cache.set(cacheKey, index, 4h)
BuildIndex(c, templates, t) ==
    LET index == Obj([totalTemplates |-> Num(Len(templates)), templates |-> Arr(templates)]) IN
    Ran(CacheManager_set(c, TemplateIndexKey, index, Num(TemplateIndexTtl), t),
        "none", 0, FALSE, index)

\* The batch loop over the template files of the repository index: each file
\* goes through processTemplateFile, which reads it with getRawFileContent.
ProcessFiles(c, files, t) ==
    LET templateFiles == SelectSeq(files, IsTemplateFile) IN
    IF templateFiles = <<>>
    THEN BuildIndex(c, <<>>, t)
    ELSE LET r == CacheManager_get(c, RawKey(templateFiles[1].f.path.s), t) IN
         IF Truthy(r.res)
         THEN BuildIndex(r.cache, <<Template(templateFiles[1], r.res)>>, t)
         ELSE Ran(r.cache, "file", 1, FALSE, Undefined)

\* indexRepository once the listing of basePath is known (a failed listing is
\* caught by indexDirectoryRecursive and leaves no files): the repository
\* index is cached for 6 hours.
IndexFromListing(c, listing, t) ==
    LET files == IF listing = Failure THEN <<>>
                 ELSE SelectSeq(listing.a, LAMBDA item : item.f.type.s = "file")
        index == Obj([files |-> Arr(files)]) IN
    ProcessFiles(CacheManager_set(c, IndexKey, index, Num(IndexTtl), t), files, t)

\* indexTemplates from its call.
StartIndexTemplates(c, t) ==
    LET cached == CacheManager_get(c, TemplateIndexKey, t) IN
    IF Truthy(cached.res)
    THEN Ran(cached.cache, "none", 0, TRUE, cached.res)
    ELSE LET repositoryIndex == CacheManager_get(cached.cache, IndexKey, t) IN
         IF Truthy(repositoryIndex.res)
         THEN ProcessFiles(repositoryIndex.cache, repositoryIndex.res.f.files.a, t)
         ELSE LET contents == CacheManager_get(repositoryIndex.cache,
                                               RepoKey(Config.basePath), t) IN
              IF Truthy(contents.res)
              THEN IndexFromListing(contents.cache, contents.res, t)
              ELSE Ran(contents.cache, "listing", 1, FALSE, Undefined)

IndexTask(stage) == [fn |-> "indexTemplates", stage |-> stage]

Await(ran) ==
    /\ ran.issued > 0 => requests < MaxRequests
    /\ requests' = requests + ran.issued
    /\ cache' = ran.cache

IndexTemplates ==
    LET ran == StartIndexTemplates(cache, now) IN
    /\ Await(ran)
    /\ pending' = IF ran.wait = "none" THEN pending ELSE pending \cup {IndexTask(ran.wait)}
    /\ call' = Lookup("indexTemplates", TemplateIndexKey, ran.hit, ran.res, ran.issued)
    /\ UNCHANGED <<now, refreshed>>

\* The listing of basePath arrives (or the request fails).
IndexListingResponse(response) ==
    LET c == IF response = Failure THEN cache
             ELSE CacheManager_set(cache, RepoKey(Config.basePath), response,
                                   Num(RepoTtl), now)
        ran == IndexFromListing(c, response, now) IN
    /\ IndexTask("listing") \in pending
    /\ Await(ran)
    /\ pending' = (pending \ {IndexTask("listing")})
                      \cup (IF ran.wait = "none" THEN {} ELSE {IndexTask(ran.wait)})
    /\ UNCHANGED <<now, call, refreshed>>

\* The template file's text arrives (or the request fails, and
\* processTemplateFile gives null for the file).
IndexFileResponse(response) ==
    LET ran == IF response = Failure
               THEN BuildIndex(cache, <<>>, now)
               ELSE BuildIndex(CacheManager_set(cache, RawKey(TemplatePath), response,
                                                Num(RawTtl), now),
                               <<Template(TemplateFile, response)>>, now) IN
    /\ IndexTask("file") \in pending
    /\ Await(ran)
    /\ pending' = pending \ {IndexTask("file")}
    /\ UNCHANGED <<now, call, refreshed>>

\* Time passes, to a later one of the instants.
Advance(t) ==
    /\ t > now
    /\ now' = t
    /\ UNCHANGED <<cache, pending, requests, call, refreshed>>

NextClient ==
    \/ GetRepositoryContents(Config.basePath) /\ UNCHANGED <<cacheGhost, analysisVars, indexing>>
    \/ GetRawFileContent(TemplatePath) /\ UNCHANGED <<cacheGhost, analysisVars, indexing>>
    \/ \E task \in pending, response \in Listings \cup Contents \cup {Failure} :
            Respond(task, response) /\ UNCHANGED <<cacheGhost, analysisVars, indexing>>
    \/ IndexTemplates /\ UNCHANGED <<cacheGhost, analysisVars, indexing>>
    \/ \E response \in Listings \cup {Failure} :
            IndexListingResponse(response) /\ UNCHANGED <<cacheGhost, analysisVars, indexing>>
    \/ \E response \in Contents \cup {Failure} :
            IndexFileResponse(response) /\ UNCHANGED <<cacheGhost, analysisVars, indexing>>
    \/ \E t \in Instants : Advance(t) /\ UNCHANGED <<cacheGhost, analysisVars, indexing>>

SpecClient == Init /\ [][NextClient]_vars

(***************************************************************************)
(* AzurePolicyMcpServer (server/mcp-server.ts): searchPolicyFiles, which   *)
(* the policy tools call, and the refresh_data_sources tool.               *)
(***************************************************************************)
SearchTtl == 10 * 60 * 1000     \* this.cache.set(cacheKey, results, 10 * 60 * 1000)

SearchInstants == {0, SearchTtl, SearchTtl + 1}

MaxSearchRequests == 5  \* the GitHub searches of one run

\* Array.prototype.join(',')
RECURSIVE Join(_)
Join(a) ==
    IF Len(a) = 0 THEN ""
    ELSE IF Len(a) = 1 THEN a[1]
    ELSE a[1] \o "," \o Join(Tail(a))

Includes(a, x) == \E i \in 1..Len(a) : a[i] = x

\* Set.prototype.add for each item: insertion order, no duplicates.
RECURSIVE AddAll(_, _)
AddAll(set, items) ==
    IF items = <<>> THEN set
    ELSE AddAll(IF Includes(set, Head(items)) THEN set ELSE Append(set, Head(items)),
                Tail(items))

\* The arguments of a search: resourceTypes, and categories or undefined.
SearchArgs ==
    { [resourceTypes |-> <<"Microsoft.Web/sites">>, categories |-> Undefined],
      [resourceTypes |-> <<>>, categories |-> Arr(<<"Backup">>)],
      [resourceTypes |-> <<"Microsoft.Web/sites">>, categories |-> Arr(<<"Cost">>)] }

\* `policy-search:${resourceTypes.join(',')}-${categories?.join(',') || ''}`
SearchKey(args) ==
    "policy-search:" \o Join(args.resourceTypes) \o "-"
        \o (IF Nullish(args.categories) THEN "" ELSE Join(args.categories.a))

KnownPolicyFiles(key) ==
    CASE key = "Microsoft.Storage/storageAccounts" ->
            << "StorageAccountBlobs_EnableAzureBackup_Audit.json",
               "BlobBackupForStorageAccoutsWithTag_DINE.json",
               "StorageAccountSecureTransfer_Modify.json",
               "StorageAccountMinimumTLSVersion_Audit.json",
               "StorageAccountAllowSharedKeyAccess_Audit.json",
               "StorageAccountCustomerManagedKeyEnabled_Audit.json" >>
      [] key = "Microsoft.Compute/virtualMachines" ->
            << "VirtualMachineBackup_DINE.json",
               "VirtualMachines_EnableAzureBackup_Audit.json",
               "VirtualMachineWithTag_DINE.json" >>
      [] key = "backup" ->
            << "RecoveryServices_PrivateEndpoint_Audit.json",
               "BackupRecoveryServices_SoftDelete_Audit.json" >>
      [] key = "security" ->
            << "StorageAccountSecureTransfer_Modify.json",
               "StorageAccountMinimumTLSVersion_Audit.json",
               "StorageAccountAllowSharedKeyAccess_Audit.json" >>
      [] OTHER -> <<>>

\* rt.includes('Storage') || rt.includes('Compute'), for the types above.
NamesStorageOrCompute(rt) ==
    rt \in {"Microsoft.Storage/storageAccounts", "Microsoft.Compute/virtualMachines"}

RECURSIVE KnownFor(_)
KnownFor(resourceTypes) ==
    IF resourceTypes = <<>> THEN <<>>
    ELSE AddAll(KnownPolicyFiles(Head(resourceTypes)), KnownFor(Tail(resourceTypes)))

\* Array.from(searchFilenames).slice(0, 10)
SearchFilenames(args) ==
    LET cats == IF Nullish(args.categories) THEN <<>> ELSE args.categories.a
        byType == KnownFor(args.resourceTypes)
        backup == IF Includes(cats, "Backup")
                  THEN AddAll(byType, KnownPolicyFiles("backup")) ELSE byType
        security == IF Includes(cats, "Security") \/ cats = <<>>
                    THEN AddAll(backup, KnownPolicyFiles("security")) ELSE backup
        all == IF security = <<>>
                  /\ (\/ Includes(cats, "Backup")
                      \/ \E i \in 1..Len(args.resourceTypes) :
                            NamesStorageOrCompute(args.resourceTypes[i]))
               THEN << "VirtualMachineBackup_DINE.json",
                       "StorageAccountBlobs_EnableAzureBackup_Audit.json",
                       "VirtualMachines_EnableAzureBackup_Audit.json" >>
               ELSE security IN
    SubSeq(all, 1, IF Len(all) < 10 THEN Len(all) ELSE 10)

\* What the GitHub code search answers for a file name: no item, the file's
\* path, or a failure (a response that is not ok, a timeout, a network error).
PolicyPath(filename) == "built-in-policies/policyDefinitions/" \o filename
SearchResponses(filename) == {Failure, Arr(<<>>), Arr(<<Str(PolicyPath(filename))>>)}

SearchTask(key, names, i, results) ==
    [fn |-> "searchPolicyFiles", key |-> key, names |-> names, i |-> i,
     results |-> results]

\* searchPolicyFiles, up to the first `await fetch(searchUrl, ...)`; without
\* file names to search, the empty result is cached at once.
SearchPolicyFiles(args) ==
    LET key == SearchKey(args)
        cached == CacheManager_get(cache, key, now)
        names == SearchFilenames(args) IN
    /\ IF Truthy(cached.res)
       THEN /\ cache' = cached.cache
            /\ call' = Lookup("searchPolicyFiles", key, TRUE, cached.res, 0)
            /\ UNCHANGED <<pending, requests>>
       ELSE IF names = <<>>
       THEN /\ cache' = CacheManager_set(cached.cache, key, Arr(<<>>), Num(SearchTtl), now)
            /\ call' = Lookup("searchPolicyFiles", key, FALSE, Arr(<<>>), 0)
            /\ UNCHANGED <<pending, requests>>
       ELSE /\ requests < MaxSearchRequests
            /\ cache' = cached.cache
            /\ requests' = requests + 1
            /\ pending' = pending \cup {SearchTask(key, names, 1, <<>>)}
            /\ call' = Lookup("searchPolicyFiles", key, FALSE, Undefined, 1)
    /\ refreshed' = refreshed \ {key}
    /\ UNCHANGED now

\* The answer to the search for names[i]: its paths are added to the results
\* (a failure is logged and skipped); then the next name is searched, or the
\* results are cached for 10 minutes and returned.
SearchResponse(task, response) ==
    LET results == IF response = Failure THEN task.results
                   ELSE AddAll(task.results, response.a) IN
    /\ task \in pending
    /\ task.fn = "searchPolicyFiles"
    /\ response \in SearchResponses(task.names[task.i])
    /\ IF task.i < Len(task.names)
       THEN /\ requests < MaxSearchRequests
            /\ requests' = requests + 1
            /\ pending' = (pending \ {task})
                            \cup {SearchTask(task.key, task.names, task.i + 1, results)}
            /\ UNCHANGED cache
       ELSE /\ cache' = CacheManager_set(cache, task.key, Arr(results), Num(SearchTtl), now)
            /\ pending' = pending \ {task}
            /\ UNCHANGED requests
    /\ UNCHANGED <<now, call, refreshed>>

\* refresh_data_sources.execute: it reads the cache's statistics and reports
\* the refresh as done.  refreshed notes the searches cached at that time.
RefreshDataSources ==
    /\ refreshed' = {SearchKey(args) : args \in
                        {a \in SearchArgs :
                            /\ MapHas(cache, SearchKey(a))
                            /\ ~Expired(MapGet(cache, SearchKey(a)), now)}}
    /\ call' = [NoCall EXCEPT !.fn = "refresh_data_sources",
                              !.res = Num(CacheManager_size(cache))]
    /\ UNCHANGED <<cache, now, pending, requests>>

NextTools ==
    \/ \E args \in SearchArgs : SearchPolicyFiles(args) /\ UNCHANGED <<cacheGhost, analysisVars, indexing>>
    \/ \E task \in pending :
        \E response \in SearchResponses(task.names[task.i]) :
            SearchResponse(task, response) /\ UNCHANGED <<cacheGhost, analysisVars, indexing>>
    \/ RefreshDataSources /\ UNCHANGED <<cacheGhost, analysisVars, indexing>>
    \/ \E t \in SearchInstants : Advance(t) /\ UNCHANGED <<cacheGhost, analysisVars, indexing>>

SpecTools == Init /\ [][NextTools]_vars

(***************************************************************************)
(* JSON texts and objects with ordered keys, as the PolicyParser sees      *)
(* them.  A text is the sequence of its tokens.                            *)
(***************************************************************************)
\* An object literal: the properties in insertion order; a repeated name
\* keeps its first position and its last value.
ObjOf(pairs) ==
    LET names == [i \in 1..Len(pairs) |-> pairs[i][1]]
        last_(k) == CHOOSE i \in 1..Len(pairs) :
                        /\ pairs[i][1] = k
                        /\ \A j \in (i + 1)..Len(pairs) : pairs[j][1] # k IN
    [t |-> "object",
     f |-> [k \in {names[i] : i \in 1..Len(names)} |-> pairs[last_(k)][2]],
     keys |-> AddAll(<<>>, names)]

\* Object.entries(v)
Entries(v) == [i \in 1..Len(v.keys) |-> <<v.keys[i], v.f[v.keys[i]]>>]

\* The properties that are present: an optional property is left out.
Present(pairs) == SelectSeq(pairs, LAMBDA p : p[2] # Undefined)

\* The error of a property access on undefined or null.
TypeError == [t |-> "TypeError"]

\* v.k
Member(v, k) ==
    IF v = TypeError \/ Nullish(v) THEN TypeError
    ELSE IF v.t = "object" /\ k \in DOMAIN v.f THEN v.f[k]
    ELSE Undefined

\* v?.k with the optional chaining removed
StrictMember(v, k) == Member(v, k)

\* v?.k
OptMember(v, k) == IF Nullish(v) THEN Undefined ELSE Member(v, k)

\* a || b
Or(a, b) == IF a = TypeError THEN TypeError ELSE IF Truthy(a) THEN a ELSE b

\* Tokens: punctuation, string literals, number literals, the literals
\* true, false and null, and words that JSON does not have.
Punct(s) == [k |-> "punct", s |-> s]
StrTok(s) == [k |-> "string", s |-> s]
NumTok(n) == [k |-> "number", n |-> n]
Word(s) == [k |-> "word", s |-> s]

RECURSIVE JSON_stringify(_)
RECURSIVE StringifyElements(_)
RECURSIVE StringifyMembers(_)

\* JSON.stringify, to tokens: a property whose value is undefined is left out.
JSON_stringify(v) ==
    CASE v.t = "string" -> <<StrTok(v.s)>>
      [] v.t = "number" -> <<NumTok(v.n)>>
      [] v.t = "boolean" -> <<Word(IF v.b THEN "true" ELSE "false")>>
      [] v.t = "null" -> <<Word("null")>>
      [] v.t = "array" -> <<Punct("[")>> \o StringifyElements(v.a) \o <<Punct("]")>>
      [] v.t = "object" ->
            <<Punct("{")>> \o StringifyMembers(Present(Entries(v))) \o <<Punct("}")>>

StringifyElements(a) ==
    IF a = <<>> THEN <<>>
    ELSE JSON_stringify(Head(a))
            \o (IF Len(a) = 1 THEN <<>> ELSE <<Punct(",")>> \o StringifyElements(Tail(a)))

StringifyMembers(entries) ==
    IF entries = <<>> THEN <<>>
    ELSE <<StrTok(Head(entries)[1]), Punct(":")>> \o JSON_stringify(Head(entries)[2])
            \o (IF Len(entries) = 1 THEN <<>>
                ELSE <<Punct(",")>> \o StringifyMembers(Tail(entries)))

\* The result of parsing from token i: the value and the next token, or a
\* SyntaxError.
Parsed(value, next) == [ok |-> TRUE, value |-> value, next |-> next]
SyntaxError == [ok |-> FALSE, value |-> Undefined, next |-> 0]

IsPunct(text, i, s) == i <= Len(text) /\ text[i] = Punct(s)

RECURSIVE ParseValue(_, _)
RECURSIVE ParseElements(_, _, _)
RECURSIVE ParseMembers(_, _, _)

ParseValue(text, i) ==
    IF i > Len(text) THEN SyntaxError
    ELSE LET tok == text[i] IN
         CASE tok.k = "string" -> Parsed(Str(tok.s), i + 1)
           [] tok.k = "number" -> Parsed(Num(tok.n), i + 1)
           [] tok.k = "word" ->
                CASE tok.s = "true" -> Parsed(Bool(TRUE), i + 1)
                  [] tok.s = "false" -> Parsed(Bool(FALSE), i + 1)
                  [] tok.s = "null" -> Parsed(Null, i + 1)
                  [] OTHER -> SyntaxError
           [] tok = Punct("[") ->
                IF IsPunct(text, i + 1, "]") THEN Parsed(Arr(<<>>), i + 2)
                ELSE ParseElements(text, i + 1, <<>>)
           [] tok = Punct("{") ->
                IF IsPunct(text, i + 1, "}") THEN Parsed(ObjOf(<<>>), i + 2)
                ELSE ParseMembers(text, i + 1, <<>>)
           [] OTHER -> SyntaxError

\* value (',' value)* ']'
ParseElements(text, i, elements) ==
    LET r == ParseValue(text, i) IN
    IF ~r.ok THEN SyntaxError
    ELSE IF IsPunct(text, r.next, ",")
    THEN ParseElements(text, r.next + 1, Append(elements, r.value))
    ELSE IF IsPunct(text, r.next, "]")
    THEN Parsed(Arr(Append(elements, r.value)), r.next + 1)
    ELSE SyntaxError

\* string ':' value (',' string ':' value)* '}'
ParseMembers(text, i, pairs) ==
    IF ~(i <= Len(text) /\ text[i].k = "string" /\ IsPunct(text, i + 1, ":"))
    THEN SyntaxError
    ELSE LET r == ParseValue(text, i + 2) IN
         IF ~r.ok THEN SyntaxError
         ELSE IF IsPunct(text, r.next, ",")
         THEN ParseMembers(text, r.next + 1, Append(pairs, <<text[i].s, r.value>>))
         ELSE IF IsPunct(text, r.next, "}")
         THEN Parsed(ObjOf(Append(pairs, <<text[i].s, r.value>>)), r.next + 1)
         ELSE SyntaxError

\* JSON.parse: the whole text is one value.
JSON_parse(text) ==
    LET r == ParseValue(text, 1) IN
    IF r.ok /\ r.next = Len(text) + 1 THEN r ELSE SyntaxError

(***************************************************************************)
(* PolicyParser (services/policy/policy-parser.ts).  Results are built as  *)
(* the code builds them; TypeError stands for a call that threw.           *)
(***************************************************************************)
CommonResourceTypes ==
    << "Microsoft.Compute/virtualMachines",
       "Microsoft.Storage/storageAccounts",
       "Microsoft.Network/virtualNetworks",
       "Microsoft.Network/networkSecurityGroups",
       "Microsoft.Web/sites",
       "Microsoft.KeyVault/vaults",
       "Microsoft.ContainerInstance/containerGroups",
       "Microsoft.ContainerRegistry/registries" >>

ConditionOperators ==
    << "equals", "notEquals", "like", "notLike", "match", "notMatch",
       "contains", "notContains", "in", "notIn", "exists",
       "less", "lessOrEquals", "greater", "greaterOrEquals" >>

CheckOps == << "equals", "notEquals", "like", "notLike", "in", "notIn", "exists" >>

\* The operators of ops that the node has (cond[op] !== undefined), in order.
OperatorsOf(cond, ops) == SelectSeq(ops, LAMBDA op : Member(cond, op) # Undefined)

\* cond.allOf, cond.anyOf as the children to visit: none when falsy.
Children(cond, k) == IF Truthy(Member(cond, k)) THEN Member(cond, k).a ELSE <<>>

\* extractParameters: one record per entry of the parameters object.
PolicyParser_extractParameters(parameters) ==
    IF parameters = TypeError THEN TypeError
    ELSE LET entries == Entries(parameters)
             info(name, param) ==
                Obj([name |-> Str(name),
                     type |-> Member(param, "type"),
                     displayName |-> OptMember(Member(param, "metadata"), "displayName"),
                     description |-> OptMember(Member(param, "metadata"), "description"),
                     required |-> Bool(Member(param, "defaultValue") = Undefined),
                     allowedValues |-> Member(param, "allowedValues"),
                     defaultValue |-> Member(param, "defaultValue")]) IN
         IF \E i \in 1..Len(entries) : Nullish(entries[i][2])
         THEN TypeError
         ELSE Arr([i \in 1..Len(entries) |-> info(entries[i][1], entries[i][2])])

RECURSIVE PolicyParser_extractConditions(_)
RECURSIVE FlatMapConditions(_)

\* extractConditions: the entries of one node, in the order allOf, anyOf,
\* not, the comparison operators, count.
PolicyParser_extractConditions(condition) ==
    IF ~Truthy(condition) THEN <<>>
    ELSE LET logical(k) ==
                IF Truthy(Member(condition, k))
                THEN << Obj([type |-> Str("logical"), operator |-> Str(k),
                             nested |-> Arr(IF k = "not"
                                            THEN PolicyParser_extractConditions(
                                                    Member(condition, k))
                                            ELSE FlatMapConditions(
                                                    Member(condition, k).a))]) >>
                ELSE <<>>
             ops == IF Truthy(Member(condition, "field"))
                    THEN OperatorsOf(condition, ConditionOperators) ELSE <<>>
             count == Member(condition, "count") IN
         logical("allOf") \o logical("anyOf") \o logical("not")
            \o [i \in 1..Len(ops) |->
                    Obj([type |-> Str("field"), operator |-> Str(ops[i]),
                         field |-> Member(condition, "field"),
                         value |-> Member(condition, ops[i])])]
            \o (IF Truthy(count)
                THEN << Obj([type |-> Str("function"), operator |-> Str("count"),
                             field |-> Member(count, "field"),
                             value |-> count,
                             nested |-> Arr(IF Truthy(Member(count, "where"))
                                            THEN PolicyParser_extractConditions(
                                                    Member(count, "where"))
                                            ELSE <<>>)]) >>
                ELSE <<>>)

\* conditions.flatMap(c => this.extractConditions(c))
FlatMapConditions(conditions) ==
    IF conditions = <<>> THEN <<>>
    ELSE PolicyParser_extractConditions(Head(conditions))
            \o FlatMapConditions(Tail(conditions))

RECURSIVE Walk(_)
RECURSIVE WalkAll(_)

\* The nodes that processCondition, extractFromCondition and collectFields
\* visit, in the order of the visits: the node, then its allOf, its anyOf
\* and its not.
Walk(cond) ==
    IF ~Truthy(cond) THEN <<>>
    ELSE <<cond>> \o WalkAll(Children(cond, "allOf")) \o WalkAll(Children(cond, "anyOf"))
            \o (IF Truthy(Member(cond, "not")) THEN Walk(Member(cond, "not")) ELSE <<>>)

WalkAll(conds) == IF conds = <<>> THEN <<>> ELSE Walk(Head(conds)) \o WalkAll(Tail(conds))

\* The values of the operators ops of the node.
ValuesOf(cond, ops) == [i \in 1..Len(ops) |-> Member(cond, ops[i])]

\* processCondition's update of fieldMap (a Map, kept in insertion order) at
\* one node.
CheckField(fieldMap, cond) ==
    LET field == Member(cond, "field")
        operators == OperatorsOf(cond, CheckOps)
        values == ValuesOf(cond, operators)
        existing == {i \in 1..Len(fieldMap) : fieldMap[i].field = field} IN
    IF ~Truthy(field) \/ operators = <<>> THEN fieldMap
    ELSE IF existing # {}
    THEN LET i == CHOOSE j \in existing : TRUE IN
         [fieldMap EXCEPT ![i].operators = @ \o operators, ![i].values = @ \o values]
    ELSE Append(fieldMap,
                [field |-> field, operators |-> operators, values |-> values,
                 required |-> IF Includes(operators, "exists")
                              THEN Member(cond, "exists") = Bool(TRUE)
                              ELSE FALSE])

RECURSIVE CheckFields(_, _)
CheckFields(fieldMap, nodes) ==
    IF nodes = <<>> THEN fieldMap
    ELSE CheckFields(CheckField(fieldMap, Head(nodes)), Tail(nodes))

\* extractFieldChecks: Array.from(fieldMap.values())
PolicyParser_extractFieldChecks(condition) ==
    LET fieldMap == CheckFields(<<>>, Walk(condition)) IN
    [i \in 1..Len(fieldMap) |->
        Obj([field |-> fieldMap[i].field,
             operators |-> Arr([j \in 1..Len(fieldMap[i].operators) |->
                                    Str(fieldMap[i].operators[j])]),
             values |-> Arr(fieldMap[i].values),
             required |-> Bool(fieldMap[i].required)])]

RECURSIVE LogicalOperators(_, _)
RECURSIVE LogicalOperatorsAll(_, _)

\* extractLogicalOperators' processCondition: an operator is added to the
\* Set before the children under it are visited.
LogicalOperators(operators, cond) ==
    IF ~Truthy(cond) THEN operators
    ELSE LET allOf == IF Truthy(Member(cond, "allOf"))
                      THEN LogicalOperatorsAll(AddAll(operators, <<"allOf">>),
                                               Member(cond, "allOf").a)
                      ELSE operators
             anyOf == IF Truthy(Member(cond, "anyOf"))
                      THEN LogicalOperatorsAll(AddAll(allOf, <<"anyOf">>),
                                               Member(cond, "anyOf").a)
                      ELSE allOf IN
         IF Truthy(Member(cond, "not"))
         THEN LogicalOperators(AddAll(anyOf, <<"not">>), Member(cond, "not"))
         ELSE anyOf

LogicalOperatorsAll(operators, conds) ==
    IF conds = <<>> THEN operators
    ELSE LogicalOperatorsAll(LogicalOperators(operators, Head(conds)), Tail(conds))

PolicyParser_extractLogicalOperators(condition) == LogicalOperators(<<>>, condition)

\* An assessComplexity whose thresholds are exclusive.
AssessComplexityBelow(conditions, logicalOperators, fieldChecks) ==
    LET totalConditions == Len(conditions)
        logicalOpCount == Len(logicalOperators)
        fieldCount == Len(fieldChecks) IN
    IF totalConditions < 3 /\ logicalOpCount < 1 /\ fieldCount < 2 THEN "simple"
    ELSE IF totalConditions < 8 /\ logicalOpCount < 3 /\ fieldCount < 5 THEN "moderate"
    ELSE "complex"

\* assessComplexity
PolicyParser_assessComplexity(conditions, logicalOperators, fieldChecks) ==
    LET totalConditions == Len(conditions)
        logicalOpCount == Len(logicalOperators)
        fieldCount == Len(fieldChecks) IN
    IF totalConditions <= 3 /\ logicalOpCount <= 1 /\ fieldCount <= 2 THEN "simple"
    ELSE IF totalConditions <= 8 /\ logicalOpCount <= 3 /\ fieldCount <= 5 THEN "moderate"
    ELSE "complex"

RECURSIVE CountListed(_)
\* The entries of a listing, the nested ones included.
CountListed(conditions) ==
    IF conditions = <<>> THEN 0
    ELSE 1 + (IF "nested" \in DOMAIN Head(conditions).f
              THEN CountListed(Head(conditions).f.nested.a) ELSE 0)
           + CountListed(Tail(conditions))

\* An analyzeRules that gives assessComplexity the entries of every depth.
AnalyzeRulesOfEveryDepth(policyRule) ==
    IF Member(policyRule, "if") = TypeError THEN TypeError
    ELSE LET conditions == PolicyParser_extractConditions(Member(policyRule, "if"))
             fieldChecks == PolicyParser_extractFieldChecks(Member(policyRule, "if"))
             logicalOperators ==
                PolicyParser_extractLogicalOperators(Member(policyRule, "if")) IN
         Obj([conditions |-> Arr(conditions),
              logicalOperators |-> Arr([i \in 1..Len(logicalOperators) |->
                                            Str(logicalOperators[i])]),
              fieldChecks |-> Arr(fieldChecks),
              complexity |-> Str(PolicyParser_assessComplexity(
                                    [i \in 1..CountListed(conditions) |-> conditions[1]],
                                    logicalOperators, fieldChecks))])

\* analyzeRules
PolicyParser_analyzeRules(policyRule) ==
    IF Member(policyRule, "if") = TypeError THEN TypeError
    ELSE LET conditions == PolicyParser_extractConditions(Member(policyRule, "if"))
             fieldChecks == PolicyParser_extractFieldChecks(Member(policyRule, "if"))
             logicalOperators ==
                PolicyParser_extractLogicalOperators(Member(policyRule, "if")) IN
         Obj([conditions |-> Arr(conditions),
              logicalOperators |-> Arr([i \in 1..Len(logicalOperators) |->
                                            Str(logicalOperators[i])]),
              fieldChecks |-> Arr(fieldChecks),
              complexity |-> Str(PolicyParser_assessComplexity(
                                    conditions, logicalOperators, fieldChecks))])

\* The field names of the conditions below.
StorageHttpsField == "Microsoft.Storage/storageAccounts/supportsHttpsTrafficOnly"
FieldNames == {"type", "location", "tags.environment", "sku.name", StorageHttpsField}

\* condition.field.match(/^(Microsoft\.\w+\/\w+)/): match[1], for the field
\* names above.
MatchResourceType(field) ==
    IF field = StorageHttpsField THEN <<"Microsoft.Storage/storageAccounts">> ELSE <<>>

\* fieldPatterns, in the Map's order.
FieldPatterns ==
    << <<"location", <<"*">> >>,
       <<"tags", <<"*">> >>,
       <<"sku", <<"Microsoft.Compute/virtualMachines", "Microsoft.Storage/storageAccounts">> >>,
       <<"properties.encryption",
         <<"Microsoft.Storage/storageAccounts", "Microsoft.KeyVault/vaults">> >>,
       <<"properties.networkAcls", <<"Microsoft.Storage/storageAccounts">> >>,
       <<"properties.supportsHttpsTrafficOnly", <<"Microsoft.Storage/storageAccounts">> >>,
       <<"properties.minimumTlsVersion", <<"Microsoft.Storage/storageAccounts">> >> >>

\* field.includes(pattern), for the field names above.
FieldIncludes(field, pattern) ==
    <<field, pattern>> \in { <<"location", "location">>,
                             <<"tags.environment", "tags">>,
                             <<"sku.name", "sku">> }

\* The strings among the values a (typeof type === 'string').
Strings(a) ==
    LET strs == SelectSeq(a, LAMBDA v : v.t = "string") IN
    [i \in 1..Len(strs) |-> strs[i].s]

\* extractFromCondition at one node: the types it adds to the Set.
TypesOfNode(condition) ==
    LET field == Member(condition, "field")
        equals == Member(condition, "equals")
        inList == Member(condition, "in") IN
    (IF field = Str("type") /\ Truthy(equals) /\ equals.t = "string"
     THEN <<equals.s>> ELSE <<>>)
    \o (IF field = Str("type") /\ Truthy(inList) /\ inList.t = "array"
        THEN Strings(inList.a) ELSE <<>>)
    \o (IF Truthy(field) /\ field.t = "string" THEN MatchResourceType(field.s) ELSE <<>>)

RECURSIVE TypesOfNodes(_, _)
TypesOfNodes(resourceTypes, nodes) ==
    IF nodes = <<>> THEN resourceTypes
    ELSE TypesOfNodes(AddAll(resourceTypes, TypesOfNode(Head(nodes))), Tail(nodes))

\* The types a found field adds to inferredTypes, pattern by pattern.
RECURSIVE InferFromField(_, _, _)
InferFromField(inferredTypes, field, patterns) ==
    IF patterns = <<>> THEN inferredTypes
    ELSE LET types == Head(patterns)[2]
             added == IF ~FieldIncludes(field, Head(patterns)[1]) THEN inferredTypes
                      ELSE IF types = <<"*">> THEN AddAll(inferredTypes, CommonResourceTypes)
                      ELSE AddAll(inferredTypes, types) IN
         InferFromField(added, field, Tail(patterns))

RECURSIVE InferFromFields(_, _)
InferFromFields(inferredTypes, fields) ==
    IF fields = <<>> THEN inferredTypes
    ELSE InferFromFields(InferFromField(inferredTypes, Head(fields), FieldPatterns),
                         Tail(fields))

\* inferResourceTypesFromFields
PolicyParser_inferResourceTypesFromFields(condition) ==
    LET nodes == SelectSeq(Walk(condition), LAMBDA c : Truthy(Member(c, "field")))
        foundFields == AddAll(<<>>, [i \in 1..Len(nodes) |-> Member(nodes[i], "field").s]) IN
    InferFromFields(<<>>, foundFields)

\* extractResourceTypes
PolicyParser_extractResourceTypes(policyRule) ==
    IF Member(policyRule, "if") = TypeError THEN TypeError
    ELSE LET resourceTypes == TypesOfNodes(<<>>, Walk(Member(policyRule, "if")))
             types == IF resourceTypes = <<>>
                      THEN PolicyParser_inferResourceTypesFromFields(Member(policyRule, "if"))
                      ELSE resourceTypes IN
         Arr([i \in 1..Len(types) |-> Str(types[i])])

\* !!(v?.length)
HasLength(v) ==
    CASE v.t = "array" -> v.a # <<>>
      [] v.t = "string" -> v.s # ""
      [] OTHER -> FALSE

\* An extractEffects that takes the flags from the details alone.
ExtractEffectsFromDetails(policyRule) ==
    IF Member(policyRule, "then") = TypeError THEN TypeError
    ELSE LET effect == Member(Member(policyRule, "then"), "effect")
             details == Member(Member(policyRule, "then"), "details") IN
         IF Truthy(Member(policyRule, "then")) /\ Truthy(effect)
         THEN Arr(<< Obj([effect |-> effect,
                          hasDetails |-> Bool(Truthy(details)),
                          requiresRoleDefinitions |->
                              Bool(HasLength(OptMember(details, "roleDefinitionIds"))),
                          deploysResources |->
                              Bool(Truthy(OptMember(details, "deployment"))),
                          modifiesResources |->
                              Bool(HasLength(OptMember(details, "operations")))]) >>)
         ELSE Arr(<<>>)

\* extractEffects
PolicyParser_extractEffects(policyRule) ==
    IF Member(policyRule, "then") = TypeError THEN TypeError
    ELSE LET effect == Member(Member(policyRule, "then"), "effect")
             details == Member(Member(policyRule, "then"), "details") IN
         IF Truthy(Member(policyRule, "then")) /\ Truthy(effect)
         THEN Arr(<< Obj([effect |-> effect,
                          hasDetails |-> Bool(Truthy(details)),
                          requiresRoleDefinitions |->
                              Bool(HasLength(OptMember(details, "roleDefinitionIds"))),
                          deploysResources |->
                              Bool(effect = Str("deployIfNotExists")
                                     /\ Truthy(OptMember(details, "deployment"))),
                          modifiesResources |->
                              Bool(effect = Str("modify")
                                     /\ HasLength(OptMember(details, "operations")))]) >>)
         ELSE Arr(<<>>)

\* analyzePolicyDefinition: the ParsedPolicy, or TypeError when building it
\* threw.
PolicyParser_analyzePolicyDefinition(policy, id) ==
    LET props == Member(policy, "properties")
        metadata == Member(props, "metadata")
        policyRule == Member(props, "policyRule")
        result ==
            [id |-> Or(Or(id, Member(policy, "id")), Str("unknown")),
             name |-> Or(Member(policy, "name"), Str("unknown")),
             displayName |-> Member(props, "displayName"),
             description |-> Member(props, "description"),
             category |-> Or(OptMember(metadata, "category"), Str("General")),
             policyType |-> Member(props, "policyType"),
             mode |-> Member(props, "mode"),
             version |-> OptMember(metadata, "version"),
             deprecated |-> Or(OptMember(metadata, "deprecated"), Bool(FALSE)),
             preview |-> Or(OptMember(metadata, "preview"), Bool(FALSE)),
             parameters |-> PolicyParser_extractParameters(
                                Or(Member(props, "parameters"), ObjOf(<<>>))),
             rules |-> PolicyParser_analyzeRules(policyRule),
             resourceTypes |-> PolicyParser_extractResourceTypes(policyRule),
             effects |-> PolicyParser_extractEffects(policyRule)] IN
    IF \E k \in DOMAIN result : result[k] = TypeError THEN TypeError ELSE Obj(result)

\* What a call did: it returned value, or it threw an error of class error.
Returned(value) == [threw |-> FALSE, error |-> "none", value |-> value]
Threw(error) == [threw |-> TRUE, error |-> error, value |-> Undefined]

Outcome(value) == IF value = TypeError THEN Threw("TypeError") ELSE Returned(value)

\* parsePolicy: a SyntaxError of JSON.parse is caught and
\* `new Error('Invalid policy JSON: ...')` is thrown in its place.
PolicyParser_parsePolicy(policyJson, id) ==
    LET policyDef == JSON_parse(policyJson) IN
    IF ~policyDef.ok THEN Threw("Error")
    ELSE Outcome(PolicyParser_analyzePolicyDefinition(policyDef.value, id))

\* analyzeResourceTypeCompatibility
PolicyParser_analyzeResourceTypeCompatibility(props) ==
    IF ~Truthy(Member(props, "policyRule"))
            \/ ~Truthy(Member(Member(props, "policyRule"), "if"))
    THEN Arr(<<>>)
    ELSE LET extractedTypes == PolicyParser_extractResourceTypes(Member(props, "policyRule")).a
             fieldChecks ==
                PolicyParser_extractFieldChecks(Member(Member(props, "policyRule"), "if"))
             fields(required) ==
                LET fcs == SelectSeq(fieldChecks, LAMBDA fc : fc.f.required = Bool(required)) IN
                Arr([i \in 1..Len(fcs) |-> fcs[i].f.field]) IN
         Arr([i \in 1..Len(extractedTypes) |->
                Obj([resourceType |-> extractedTypes[i],
                     compatible |-> Bool(TRUE),
                     requiredFields |-> fields(TRUE),
                     optionalFields |-> fields(FALSE)])])

\* param.type throws for an entry of props.parameters that is undefined or
\* null.
ParameterThrows(entries) == \E i \in 1..Len(entries) : Nullish(entries[i][2])

\* A parameter loop that pushes no message.
NoParameterErrors(entries) == <<>>

\* The messages pushed for the entries of props.parameters, in order.
RECURSIVE ParameterErrors(_)
ParameterErrors(entries) ==
    IF entries = <<>> THEN <<>>
    ELSE (IF ~Truthy(Member(Head(entries)[2], "type"))
          THEN <<Str("Parameter " \o Head(entries)[1] \o " missing type")>>
          ELSE <<>>) \o ParameterErrors(Tail(entries))

\* validatePolicy: the PolicyValidationResult, or TypeError when it threw.
PolicyParser_validatePolicy(policy) ==
    LET props == Member(policy, "properties")
        policyRule == Member(props, "policyRule")
        missing(absent, message) == IF absent THEN <<Str(message)>> ELSE <<>>
        required ==
            missing(~Truthy(Member(props, "displayName")), "Missing displayName")
            \o missing(~Truthy(Member(props, "description")), "Missing description")
            \o missing(~Truthy(policyRule), "Missing policyRule")
            \o missing(~Truthy(Member(props, "mode")), "Missing mode")
        rule ==
            IF ~Truthy(policyRule) THEN <<>>
            ELSE missing(~Truthy(Member(policyRule, "if")),
                         "Missing if condition in policyRule")
                 \o missing(~Truthy(Member(policyRule, "then")),
                            "Missing then effect in policyRule")
                 \o missing(Truthy(Member(policyRule, "then"))
                                /\ ~Truthy(Member(Member(policyRule, "then"), "effect")),
                            "Missing effect in then clause")
        warnings == missing(~Truthy(OptMember(Member(props, "metadata"), "category")),
                            "Missing category in metadata")
        entries == IF Truthy(Member(props, "parameters"))
                   THEN Entries(Member(props, "parameters")) ELSE <<>>
        parameters == ParameterErrors(entries) IN
    IF props = TypeError THEN TypeError
    ELSE IF ~Truthy(props)
    THEN Obj([isValid |-> Bool(FALSE), errors |-> Arr(<<Str("Missing properties object")>>),
              warnings |-> Arr(<<>>), resourceTypeCompatibility |-> Arr(<<>>)])
    ELSE IF ParameterThrows(entries) THEN TypeError
    ELSE Obj([isValid |-> Bool(required \o rule \o parameters = <<>>),
              errors |-> Arr(required \o rule \o parameters),
              warnings |-> Arr(warnings),
              resourceTypeCompatibility |->
                    PolicyParser_analyzeResourceTypeCompatibility(props)])

(***************************************************************************)
(* The policies and texts the PolicyParser is called with.                 *)
(***************************************************************************)
StorageType == Str("Microsoft.Storage/storageAccounts")

Field(name, op, value) == ObjOf(<< <<"field", Str(name)>>, <<op, value>> >>)

\* policyRule.if
Conditions ==
    { Field("type", "equals", StorageType),
      ObjOf(<< <<"allOf", Arr(<< Field("type", "equals", StorageType),
                                 Field(StorageHttpsField, "notEquals", Bool(TRUE)) >>)>> >>),
      ObjOf(<< <<"not", Field("location", "in", Arr(<<Str("eastus")>>))>> >>),
      ObjOf(<< <<"anyOf", Arr(<< Field("tags.environment", "exists", Bool(FALSE)),
                                 Field("tags.environment", "exists", Bool(TRUE)) >>)>> >>),
      ObjOf(<< <<"count", ObjOf(<< <<"field", Str("sku.name")>>,
                                   <<"where", Field("sku.name", "like", Str("Premium*"))>> >>)>>,
               <<"greater", Num(0)>> >>),
      ObjOf(<< <<"allOf", Arr(<< Field("tags.environment", "exists", Bool(FALSE)),
                                 ObjOf(<< <<"field", Str("tags.environment")>>,
                                          <<"notEquals", Str("dev")>>,
                                          <<"exists", Bool(TRUE)>> >>),
                                 Field("type", "equals", StorageType) >>)>> >>),
      Field("tags.environment", "containsKey", Str("owner")),
      \* a root that is a logical node and a field node: 3 and 4 listed entries
      ObjOf(<< <<"allOf", Arr(<< Field("location", "equals", Str("eastus")) >>)>>,
               <<"field", Str("type")>>, <<"equals", StorageType>>,
               <<"notEquals", Str("Microsoft.Web/sites")>> >>),
      ObjOf(<< <<"allOf", Arr(<< Field("location", "equals", Str("eastus")) >>)>>,
               <<"field", Str("type")>>, <<"equals", StorageType>>,
               <<"notEquals", Str("Microsoft.Web/sites")>>,
               <<"like", Str("Microsoft.*")>> >>),
      \* a field node with nine operators
      ObjOf(<< <<"field", Str("location")>>, <<"equals", Str("eastus")>>,
               <<"notEquals", Str("westus")>>, <<"like", Str("east*")>>,
               <<"notLike", Str("west*")>>, <<"match", Str("eastus")>>,
               <<"notMatch", Str("westus")>>, <<"contains", Str("east")>>,
               <<"notContains", Str("west")>>, <<"in", Arr(<<Str("eastus")>>)>> >>),
      \* types in a list, and a field of another type
      ObjOf(<< <<"allOf", Arr(<< Field("type", "in", Arr(<<Str("Microsoft.Web/sites"),
                                                          Str("Microsoft.KeyVault/vaults")>>)),
                                 Field(StorageHttpsField, "notEquals", Bool(TRUE)) >>)>> >>),
      \* an allOf of four field nodes on two fields
      ObjOf(<< <<"allOf", Arr(<< Field("type", "equals", StorageType),
                                 Field("type", "like", Str("Microsoft.*")),
                                 Field("location", "equals", Str("eastus")),
                                 Field("location", "notEquals", Str("westus")) >>)>> >>) }

\* An effect that refers to a parameter, and an operation of modify.
EffectReference == "[parameters('effect')]"
TagOperation ==
    ObjOf(<< <<"operation", Str("add")>>, <<"field", Str("tags.environment")>>,
             <<"value", Str("dev")>> >>)

\* policyRule.then
Effects ==
    { ObjOf(<< <<"effect", Str("audit")>> >>),
      ObjOf(<< <<"effect", Str("deployIfNotExists")>>,
               <<"details", ObjOf(<< <<"roleDefinitionIds", Arr(<<Str("role-1")>>)>>,
                                     <<"deployment", ObjOf(<<>>)>> >>)>> >>),
      ObjOf(<< <<"effect", Str("modify")>>,
               <<"details", ObjOf(<< <<"operations", Arr(<<>>)>> >>)>> >>),
      ObjOf(<< <<"effect", Str("modify")>>,
               <<"details", ObjOf(<< <<"roleDefinitionIds", Arr(<<Str("role-1")>>)>>,
                                     <<"operations", Arr(<<TagOperation>>)>> >>)>> >>),
      ObjOf(<< <<"effect", Str("deployIfNotExists")>> >>),
      ObjOf(<< <<"effect", Str(EffectReference)>>,
               <<"details", ObjOf(<< <<"roleDefinitionIds", Arr(<<>>)>>,
                                     <<"deployment", ObjOf(<<>>)>>,
                                     <<"operations", Arr(<<TagOperation>>)>> >>)>> >>),
      ObjOf(<<>>) }

\* properties.metadata, or undefined when the policy has none
Metadatas ==
    { Undefined,
      Null,
      ObjOf(<<>>),
      ObjOf(<< <<"category", Str("Storage")>>, <<"version", Str("1.0.0")>> >>),
      ObjOf(<< <<"deprecated", Bool(TRUE)>>, <<"preview", Bool(TRUE)>> >>) }

EffectParameter ==
    ObjOf(<< <<"type", Str("String")>>,
             <<"metadata", ObjOf(<< <<"displayName", Str("Effect")>> >>)>>,
             <<"allowedValues", Arr(<<Str("Audit"), Str("Deny")>>)>>,
             <<"defaultValue", Str("Audit")>> >>)

\* properties.parameters, or undefined when the policy has none
ParameterMaps ==
    { Undefined,
      ObjOf(<<>>),
      ObjOf(<< <<"effect", EffectParameter>>,
               <<"tagName", ObjOf(<< <<"type", Str("String")>> >>)>> >>) }

Properties(metadata, parameters, policyRule) ==
    ObjOf(Present(<< <<"displayName", Str("Secure transfer")>>,
                     <<"policyType", Str("BuiltIn")>>,
                     <<"mode", Str("Indexed")>>,
                     <<"description", Str("Audit secure transfer")>>,
                     <<"metadata", metadata>>,
                     <<"parameters", parameters>>,
                     <<"policyRule", policyRule>> >>))

\* An AzurePolicyDefinition; its id and name are present with its metadata.
Definition(metadata, parameters, condition, effect) ==
    ObjOf(Present(
        << <<"properties",
             Properties(metadata, parameters,
                        ObjOf(Present(<< <<"if", condition>>, <<"then", effect>> >>)))>>,
           <<"id", IF Nullish(metadata) THEN Undefined ELSE Str("/policyDefinitions/p1")>>,
           <<"name", IF Nullish(metadata) THEN Undefined ELSE Str("p1")>> >>))

PolicyDefinitions ==
    { Definition(m, p, c, e) :
        m \in Metadatas, p \in ParameterMaps, c \in Conditions, e \in Effects }

\* Objects that are no policy definition: no properties, no policyRule, a
\* policyRule without if or without then, a parameter that is null.
AuditRule == ObjOf(<< <<"if", Field("type", "equals", StorageType)>>,
                      <<"then", ObjOf(<< <<"effect", Str("audit")>> >>)>> >>)
\* The properties of a policy that audits, without the member k.
PropertiesWithout(k, metadata) ==
    LET members == Present(<< <<"displayName", Str("Secure transfer")>>,
                              <<"policyType", Str("BuiltIn")>>,
                              <<"mode", Str("Indexed")>>,
                              <<"description", Str("Audit secure transfer")>>,
                              <<"metadata", metadata>>,
                              <<"policyRule", AuditRule>> >>) IN
    ObjOf(SelectSeq(members, LAMBDA member : member[1] # k))
Malformed ==
    { Null,
      ObjOf(<<>>),
      ObjOf(<< <<"properties", Properties(Undefined, Undefined, Undefined)>> >>),
      ObjOf(<< <<"properties", Properties(Undefined, Undefined, ObjOf(<<>>))>> >>),
      ObjOf(<< <<"properties",
                 Properties(Undefined, ObjOf(<< <<"effect", Null>> >>), AuditRule)>> >>),
      ObjOf(<< <<"properties",
                 Properties(Undefined,
                            ObjOf(<< <<"effect", EffectParameter>>,
                                     <<"tagName", ObjOf(<<>>)>> >>),
                            AuditRule)>> >>),
      ObjOf(<< <<"properties",
                 Properties(Undefined, Undefined,
                            ObjOf(<< <<"if", Field("type", "equals", StorageType)>>,
                                     <<"then", ObjOf(<<>>)>> >>))>> >>),
      ObjOf(<< <<"properties",
                 ObjOf(<< <<"displayName", Str("Incomplete Policy")>> >>)>> >>) }
        \cup { ObjOf(<< <<"properties", PropertiesWithout(k, metadata)>> >>) :
                    k \in {"displayName", "description", "mode"},
                    metadata \in {Undefined, ObjOf(<< <<"category", Str("Storage")>> >>)} }

\* A policy definition as analyzePolicyDefinition requires it: it has
\* properties.policyRule with an if tree and a then clause, and its
\* parameters, when present, are parameter objects.
IsObject(v) == v.t = "object"
ValidPolicyDefinition(policy) ==
    /\ IsObject(policy)
    /\ IsObject(Member(policy, "properties"))
    /\ IsObject(Member(Member(policy, "properties"), "policyRule"))
    /\ IsObject(Member(Member(Member(policy, "properties"), "policyRule"), "if"))
    /\ IsObject(Member(Member(Member(policy, "properties"), "policyRule"), "then"))
    /\ LET parameters == Member(Member(policy, "properties"), "parameters") IN
       parameters # Undefined =>
            /\ IsObject(parameters)
            /\ \A k \in DOMAIN parameters.f : IsObject(parameters.f[k])

\* The id argument, or undefined when it is not given.
Ids == {Undefined, Str("policy-1")}

\* The texts parsePolicy is given: policy files, every proper prefix of
\* them (a truncated download), a file with a trailing brace, a JavaScript
\* literal that JSON does not have, and JSON values that are no object.
PolicyFiles ==
    { JSON_stringify(Definition(m, Undefined, Field("type", "equals", StorageType), e)) :
        m \in {Undefined, ObjOf(<< <<"category", Str("Storage")>> >>)},
        e \in {ObjOf(<< <<"effect", Str("audit")>> >>)} }
PolicyTexts ==
    PolicyFiles
        \cup UNION { { SubSeq(text, 1, n) : n \in 0..(Len(text) - 1) } :
                        text \in PolicyFiles }
        \cup { text \o <<Punct("}")>> : text \in PolicyFiles }
        \cup { <<Word("undefined")>>, <<Word("null")>>, <<NumTok(1)>>,
               <<Punct("{"), Punct("}")>> }

(***************************************************************************)
(* The calls of the PolicyParser.  A call is one step, made once the       *)
(* outcome of the call before it has been taken.                           *)
(***************************************************************************)
ParsePolicy(policyJson, id) ==
    /\ parsed = NoParse
    /\ parsed' = [fn |-> "parsePolicy", input |-> policyJson, id |-> id,
                  outcome |-> PolicyParser_parsePolicy(policyJson, id)]
    /\ UNCHANGED <<cacheVars, extracted, indexing>>

AnalyzePolicyDefinition(policy, id) ==
    /\ parsed = NoParse
    /\ parsed' = [fn |-> "analyzePolicyDefinition", input |-> policy, id |-> id,
                  outcome |-> Outcome(PolicyParser_analyzePolicyDefinition(policy, id))]
    /\ UNCHANGED <<cacheVars, extracted, indexing>>

ValidatePolicy(policy) ==
    /\ parsed = NoParse
    /\ parsed' = [fn |-> "validatePolicy", input |-> policy, id |-> Undefined,
                  outcome |-> Outcome(PolicyParser_validatePolicy(policy))]
    /\ UNCHANGED <<cacheVars, extracted, indexing>>

\* The lists that assessComplexity is called with: n entries each.
MaxConditions == 9
MaxLogicalOperators == 3
MaxFieldChecks == 6
Listed(n) == [i \in 1..n |-> Obj([type |-> Str("field")])]

\* assessComplexity(conditions, logicalOperators, fieldChecks)
AssessComplexity(c, o, f) ==
    /\ parsed = NoParse
    /\ parsed' = [fn |-> "assessComplexity", input |-> [c |-> c, o |-> o, f |-> f],
                  id |-> Undefined,
                  outcome |-> Returned(Str(PolicyParser_assessComplexity(
                                                Listed(c), Listed(o), Listed(f))))]
    /\ UNCHANGED <<cacheVars, extracted, indexing>>

\* The caller has the outcome; the parser keeps nothing of the call.
TakeOutcome ==
    /\ parsed # NoParse
    /\ parsed' = NoParse
    /\ UNCHANGED <<cacheVars, extracted, indexing>>

NextPolicy ==
    \/ \E policyJson \in PolicyTexts, id \in Ids : ParsePolicy(policyJson, id)
    \/ \E policy \in PolicyDefinitions \cup Malformed, id \in Ids :
            AnalyzePolicyDefinition(policy, id)
    \/ \E policy \in PolicyDefinitions \cup Malformed : ValidatePolicy(policy)
    \/ \E c \in 0..MaxConditions, o \in 0..MaxLogicalOperators, f \in 0..MaxFieldChecks :
            AssessComplexity(c, o, f)
    \/ TakeOutcome

SpecPolicy == Init /\ [][NextPolicy]_vars

(***************************************************************************)
(* TemplateIndexer (services/templates/template-indexer.ts): what it       *)
(* extracts from one template file.  The text of a JSON (ARM) template is  *)
(* the sequence of its tokens; the text of a Bicep template is the         *)
(* sequence of the declarations that the extraction's regular expressions  *)
(* match in it.                                                            *)
(***************************************************************************)
BicepResource(type, properties) ==
    [k |-> "resource", type |-> type, properties |-> properties]
BicepParam(name, type, default) ==
    [k |-> "param", name |-> name, type |-> type, default |-> default]
BicepOutput(name, type) == [k |-> "output", name |-> name, type |-> type]

\* fileName.endsWith('.bicep'), for the file names of the model.
EndsWithBicep(fileName) == fileName = "main.bicep"

\* resourceType.split('/')[0], for the resource types of the model.
ProviderOf(type) ==
    CASE type \in {"Microsoft.Storage/storageAccounts",
                   "Microsoft.Storage/storageAccounts@2021-04-01"} -> "Microsoft.Storage"
      [] type \in {"Microsoft.Web/sites", "Microsoft.Web/sites@2022-03-01"} -> "Microsoft.Web"
      [] OTHER -> type

\* Object.keys(v) of an object.
ObjectKeys(v) == IF v.t = "object" THEN [i \in 1..Len(v.keys) |-> Str(v.keys[i])] ELSE <<>>

ResourceInfo(type, properties) ==
    Obj([type |-> Str(type), provider |-> Str(ProviderOf(type)),
         properties |-> Arr(properties)])

\* resource.type or resource.type.split throws: the element is undefined or
\* null, or its type is truthy and not a string.
ResourceThrows(resource) ==
    \/ Nullish(resource)
    \/ Truthy(Member(resource, "type")) /\ Member(resource, "type").t # "string"

\* for (const resource of template.resources): the loop ends at the first
\* element that throws, with what was pushed before it.
RECURSIVE PushResources(_, _)
PushResources(resourceTypes, resources) ==
    IF resources = <<>> \/ ResourceThrows(Head(resources)) THEN resourceTypes
    ELSE LET resource == Head(resources)
             properties == IF Truthy(Member(resource, "properties"))
                           THEN ObjectKeys(Member(resource, "properties")) ELSE <<>> IN
         PushResources(
            IF Truthy(Member(resource, "type"))
            THEN Append(resourceTypes, ResourceInfo(Member(resource, "type").s, properties))
            ELSE resourceTypes,
            Tail(resources))

\* extractResourceTypes
TemplateIndexer_extractResourceTypes(content, fileName) ==
    IF EndsWithBicep(fileName)
    THEN LET matches == SelectSeq(content, LAMBDA d : d.k = "resource") IN
         [i \in 1..Len(matches) |->
            ResourceInfo(matches[i].type,
                         [j \in 1..Len(matches[i].properties) |->
                            Str(matches[i].properties[j])])]
    ELSE LET template == JSON_parse(content)
             resources == Member(template.value, "resources") IN
         IF ~template.ok \/ resources = TypeError THEN <<>>
         ELSE IF Truthy(resources) /\ resources.t = "array"
         THEN PushResources(<<>>, resources.a)
         ELSE <<>>

\* The entries pushed before the first entry whose value is undefined or
\* null (param.type, output.type throw there).
RECURSIVE UntilThrow(_)
UntilThrow(entries) ==
    IF entries = <<>> \/ Nullish(Head(entries)[2]) THEN <<>>
    ELSE <<Head(entries)>> \o UntilThrow(Tail(entries))

\* The entries of template.parameters or template.outputs that the loop
\* reaches.
EntriesReached(content, member) ==
    LET template == JSON_parse(content)
        map == Member(template.value, member) IN
    IF ~template.ok \/ map = TypeError \/ ~Truthy(map) THEN <<>>
    ELSE UntilThrow(Entries(map))

\* extractParameters
TemplateIndexer_extractParameters(content, fileName) ==
    IF EndsWithBicep(fileName)
    THEN LET matches == SelectSeq(content, LAMBDA d : d.k = "param") IN
         [i \in 1..Len(matches) |->
            Obj([name |-> Str(matches[i].name), type |-> Str(matches[i].type),
                 defaultValue |-> IF matches[i].default # ""
                                  THEN Str(matches[i].default) ELSE Undefined])]
    ELSE LET entries == EntriesReached(content, "parameters") IN
         [i \in 1..Len(entries) |->
            Obj([name |-> Str(entries[i][1]),
                 type |-> Member(entries[i][2], "type"),
                 description |-> OptMember(Member(entries[i][2], "metadata"), "description"),
                 defaultValue |-> Member(entries[i][2], "defaultValue"),
                 allowedValues |-> Member(entries[i][2], "allowedValues")])]

\* extractOutputs
TemplateIndexer_extractOutputs(content, fileName) ==
    IF EndsWithBicep(fileName)
    THEN LET matches == SelectSeq(content, LAMBDA d : d.k = "output") IN
         [i \in 1..Len(matches) |->
            Obj([name |-> Str(matches[i].name), type |-> Str(matches[i].type)])]
    ELSE LET entries == EntriesReached(content, "outputs") IN
         [i \in 1..Len(entries) |->
            Obj([name |-> Str(entries[i][1]),
                 type |-> Member(entries[i][2], "type"),
                 description |->
                    OptMember(Member(entries[i][2], "metadata"), "description")])]

(***************************************************************************)
(* The numbers of assessComplexity are IEEE 754 doubles.  A double that is *)
(* not negative is written here as the natural number of its units of      *)
(* 2^-54, in binary with the lowest bit first; a product or a sum is the   *)
(* exact one, rounded to 53 significant bits, ties to even.                *)
(***************************************************************************)
RECURSIVE BitsOf(_)
BitsOf(n) == IF n = 0 THEN <<>> ELSE <<n % 2>> \o BitsOf(n \div 2)

ShiftLeft(a, k) == [i \in 1..k |-> 0] \o a

RECURSIVE AddBits(_, _, _)
AddBits(a, b, carry) ==
    IF a = <<>> /\ b = <<>> THEN (IF carry = 1 THEN <<1>> ELSE <<>>)
    ELSE LET x == IF a = <<>> THEN 0 ELSE Head(a)
             y == IF b = <<>> THEN 0 ELSE Head(b)
             rest(c) == IF c = <<>> THEN <<>> ELSE Tail(c) IN
         <<(x + y + carry) % 2>> \o AddBits(rest(a), rest(b), (x + y + carry) \div 2)

\* n times a, for a natural number n.
RECURSIVE TimesBits(_, _)
TimesBits(n, a) ==
    IF n = 0 THEN <<>>
    ELSE AddBits(IF n % 2 = 1 THEN a ELSE <<>>, ShiftLeft(TimesBits(n \div 2, a), 1), 0)

\* Without the zeros above the highest one.
RECURSIVE Trim(_)
Trim(a) == IF a # <<>> /\ a[Len(a)] = 0 THEN Trim(SubSeq(a, 1, Len(a) - 1)) ELSE a

\* The nearest number of 53 significant bits, ties to even.
RoundToDouble(exact) ==
    LET a == Trim(exact)
        dropped == Len(a) - 53 IN
    IF dropped <= 0 THEN a
    ELSE LET kept == SubSeq(a, dropped + 1, Len(a))
             half == a[dropped] = 1
             more == \E i \in 1..(dropped - 1) : a[i] = 1
             up == half /\ (more \/ kept[1] = 1) IN
         Trim(ShiftLeft(IF up THEN AddBits(kept, <<1>>, 0) ELSE kept, dropped))

\* a <= b
Double_lessEq(a, b) ==
    LET x == Trim(a)
        y == Trim(b) IN
    \/ Len(x) < Len(y)
    \/ /\ Len(x) = Len(y)
       /\ \/ x = y
          \/ \E i \in 1..Len(x) : /\ x[i] < y[i]
                                   /\ \A j \in (i + 1)..Len(x) : x[j] = y[j]

\* The double of a natural number, and the doubles of the literals 0.5 and
\* 0.3: 0.3 is 0x13333333333333 * 2^-54.
Double(n) == ShiftLeft(BitsOf(n), 54)
Half == ShiftLeft(<<1>>, 53)
ThreeTenths == [i \in 1..53 |-> IF i = 53 \/ i % 4 \in {1, 2} THEN 1 ELSE 0]

\* n * x and x + y
Double_times(n, x) == RoundToDouble(TimesBits(n, x))
Double_plus(x, y) == RoundToDouble(AddBits(x, y, 0))

\* An assessComplexity whose thresholds are not included.
AssessComplexityStrictly(resourceTypes, parameters, outputs) ==
    LET totalComplexity ==
            10 * Len(resourceTypes) + 5 * Len(parameters) + 3 * Len(outputs) IN
    IF totalComplexity < 30 THEN "simple"
    ELSE IF totalComplexity < 100 THEN "moderate"
    ELSE "complex"

\* assessComplexity: resourceCount + parameterCount * 0.5 + outputCount * 0.3
\* against 3 and 10.
TemplateIndexer_assessComplexity(resourceTypes, parameters, outputs) ==
    LET resourceCount == Len(resourceTypes)
        parameterCount == Len(parameters)
        outputCount == Len(outputs)
        totalComplexity ==
            Double_plus(Double_plus(Double(resourceCount),
                                    Double_times(parameterCount, Half)),
                        Double_times(outputCount, ThreeTenths)) IN
    IF Double_lessEq(totalComplexity, Double(3)) THEN "simple"
    ELSE IF Double_lessEq(totalComplexity, Double(10)) THEN "moderate"
    ELSE "complex"

\* What processTemplateFile extracts from the content of a file.
ExtractFile(content, fileName) ==
    LET resourceTypes == TemplateIndexer_extractResourceTypes(content, fileName)
        parameters == TemplateIndexer_extractParameters(content, fileName)
        outputs == TemplateIndexer_extractOutputs(content, fileName) IN
    [resourceTypes |-> resourceTypes, parameters |-> parameters, outputs |-> outputs,
     complexity |-> TemplateIndexer_assessComplexity(resourceTypes, parameters, outputs)]

(***************************************************************************)
(* The template files the extraction is given.                             *)
(***************************************************************************)
StorageResource ==
    ObjOf(<< <<"type", Str("Microsoft.Storage/storageAccounts")>>,
             <<"properties", ObjOf(<< <<"supportsHttpsTrafficOnly", Bool(TRUE)>> >>)>> >>)
SiteResource == ObjOf(<< <<"type", Str("Microsoft.Web/sites")>> >>)

\* template.resources: absent, well formed, or with an element that is null
\* or whose type is a number.
ResourceLists ==
    { Undefined,
      Arr(<<StorageResource, SiteResource>>),
      Arr(<<StorageResource, Null>>),
      Arr(<<Null, StorageResource>>),
      Arr(<<StorageResource, ObjOf(<< <<"type", Num(1)>> >>)>>) }

StringParameter ==
    ObjOf(<< <<"type", Str("string")>>,
             <<"metadata", ObjOf(<< <<"description", Str("The location")>> >>)>> >>)

\* template.parameters: absent, well formed, or with an entry that is null.
ParameterObjects ==
    { Undefined,
      ObjOf(<< <<"location", StringParameter>>,
               <<"sku", ObjOf(<< <<"type", Str("string")>>,
                                 <<"defaultValue", Str("Standard_LRS")>> >>)>> >>),
      ObjOf(<< <<"location", StringParameter>>, <<"sku", Null>> >>),
      ObjOf(<< <<"sku", Null>>, <<"location", StringParameter>> >>) }

\* template.outputs: absent, well formed, or with an entry that is null.
OutputObjects ==
    { Undefined,
      ObjOf(<< <<"endpoint", ObjOf(<< <<"type", Str("string")>> >>)>> >>),
      ObjOf(<< <<"endpoint", ObjOf(<< <<"type", Str("string")>> >>)>>,
               <<"id", Null>> >>) }

ArmTemplate(resources, parameters, outputs) ==
    ObjOf(Present(<< <<"contentVersion", Str("1.0.0.0")>>,
                     <<"parameters", parameters>>,
                     <<"resources", resources>>,
                     <<"outputs", outputs>> >>))

ArmTemplates ==
    { ArmTemplate(r, p, o) :
        r \in ResourceLists, p \in ParameterObjects, o \in OutputObjects }

BicepText ==
    << BicepParam("location", "string", ""),
       BicepParam("sku", "string", "Standard_LRS"),
       BicepResource("Microsoft.Storage/storageAccounts@2021-04-01",
                     <<"name", "location", "sku">>),
       BicepOutput("endpoint", "string") >>

\* A file: its name and its content.  The JSON files are ARM templates, ARM
\* templates cut short, and JSON texts that are no template.
TemplateFiles ==
    { [fileName |-> "azuredeploy.json", content |-> JSON_stringify(template)] :
        template \in ArmTemplates }
    \cup { [fileName |-> "azuredeploy.json",
            content |-> SubSeq(JSON_stringify(template), 1,
                               Len(JSON_stringify(template)) - 1)] :
            template \in { ArmTemplate(Arr(<<StorageResource>>), Undefined, Undefined) } }
    \cup { [fileName |-> "mainTemplate.json", content |-> content] :
            content \in { <<>>, <<Word("null")>>, <<Punct("{"), Punct("}")>> } }
    \cup { [fileName |-> "main.bicep", content |-> content] :
            content \in { <<>>, BicepText } }

(***************************************************************************)
(* TemplateIndexer.searchTemplates and sortTemplates.  An array is a       *)
(* sequence; sort() sorts the array it is called on, filter() and slice()  *)
(* make a new one, so the call gives its result and the array that         *)
(* templateIndex.templates is afterwards.                                  *)
(***************************************************************************)
\* String.prototype.toLowerCase, for the words of the search texts.
ToLowerCase(s) ==
    CASE s = "Storage" -> "storage"
      [] s = "STORAGE" -> "storage"
      [] s = "Web" -> "web"
      [] s = "mainTemplate" -> "maintemplate"
      [] OTHER -> s

\* text.includes(part) for two strings without a space, over the strings of
\* the templates and criteria below.
StringIncludes(text, part) ==
    \/ text = part
    \/ part = ""
    \/ <<text, part>> \in
        { <<"maintemplate", "main">>, <<"webapp", "web">>, <<"webapp", "app">>,
          <<"Microsoft.Storage/storageAccounts", "Microsoft.Storage">>,
          <<"Microsoft.Storage/storageAccounts", "storageAccounts">>,
          <<"Microsoft.Network/virtualNetworks", "Microsoft.Network">>,
          <<"Microsoft.Web/sites/config", "Microsoft.Web/sites">> }

\* `${t.name} ${t.metadata.description} ${t.metadata.tags.join(' ')}`
\* .toLowerCase(), as the words between its spaces.
SearchText(t) ==
    LET words == <<t.name>> \o t.metadata.description \o t.metadata.tags IN
    [i \in 1..Len(words) |-> ToLowerCase(words[i])]

\* searchText.includes(keyword.toLowerCase()), the keyword having no space.
TextIncludes(words, keyword) ==
    \E i \in 1..Len(words) : StringIncludes(words[i], ToLowerCase(keyword))

\* complexityOrder = { 'simple': 1, 'moderate': 2, 'complex': 3 }
ComplexityOrder(complexity) ==
    CASE complexity = "simple" -> 1
      [] complexity = "moderate" -> 2
      [] complexity = "complex" -> 3

\* a.name.localeCompare(b.name) < 0, == 0, > 0 as -1, 0, 1, by the rank of
\* the names in the collation order.
NameRank(name) ==
    CASE name = "azuredeploy" -> 1
      [] name = "main" -> 2
      [] name = "mainTemplate" -> 3

Sign(n) == IF n < 0 THEN -1 ELSE IF n > 0 THEN 1 ELSE 0

\* The comparator that sortTemplates gives to sort().
Compare(sortBy, a, b) ==
    CASE sortBy = "name" -> Sign(NameRank(a.name) - NameRank(b.name))
      [] sortBy = "complexity" ->
            Sign(ComplexityOrder(a.complexity) - ComplexityOrder(b.complexity))
      [] sortBy = "size" -> Sign(a.size - b.size)
      [] sortBy = "resources" -> Sign(Len(b.resourceTypes) - Len(a.resourceTypes))

\* Array.prototype.sort is stable: an element goes after those that compare
\* lower or equal.
RECURSIVE InsertSorted(_, _, _)
InsertSorted(sortBy, sorted, t) ==
    IF sorted = <<>> THEN <<t>>
    ELSE IF Compare(sortBy, Head(sorted), t) <= 0
         THEN <<Head(sorted)>> \o InsertSorted(sortBy, Tail(sorted), t)
         ELSE <<t>> \o sorted

RECURSIVE StableSort(_, _)
StableSort(sortBy, a) ==
    IF a = <<>> THEN <<>>
    ELSE InsertSorted(sortBy, StableSort(sortBy, SubSeq(a, 1, Len(a) - 1)), a[Len(a)])

\* The values of sortBy that have a case in sortTemplates.
SortsInPlace(sortBy) == sortBy \in {"name", "complexity", "size", "resources"}

\* sortTemplates(templates, sortBy): the array, sorted in place, or as it is
\* for another sortBy.
TemplateIndexer_sortTemplates(templates, sortBy) ==
    IF SortsInPlace(sortBy) THEN StableSort(sortBy, templates) ELSE templates

\* criteria.categories && criteria.categories.length > 0, and the like.
HasItems(list) == Truthy(list) /\ Len(list.a) > 0

\* A limit that is applied whenever it is given.
AnyLimit(limit) == limit # Undefined

\* criteria.limit && criteria.limit > 0
HasLimit(limit) == Truthy(limit) /\ limit.n > 0

\* results.slice(0, n)
Slice(a, n) == SubSeq(a, 1, IF n < Len(a) THEN n ELSE Len(a))

TemplateIndexer_searchTemplates(templates, criteria) ==
    LET byCategory ==
            IF HasItems(criteria.categories)
            THEN SelectSeq(templates,
                    LAMBDA t : Includes(criteria.categories.a, t.metadata.category))
            ELSE templates
        byType ==
            IF HasItems(criteria.resourceTypes)
            THEN SelectSeq(byCategory, LAMBDA t :
                    \E i \in 1..Len(t.resourceTypes) :
                        \E j \in 1..Len(criteria.resourceTypes.a) :
                            \/ StringIncludes(t.resourceTypes[i].type,
                                              criteria.resourceTypes.a[j])
                            \/ StringIncludes(criteria.resourceTypes.a[j],
                                              t.resourceTypes[i].type))
            ELSE byCategory
        byKeyword ==
            IF HasItems(criteria.keywords)
            THEN SelectSeq(byType, LAMBDA t :
                    \E j \in 1..Len(criteria.keywords.a) :
                        TextIncludes(SearchText(t), criteria.keywords.a[j]))
            ELSE byType
        byComplexity ==
            IF Truthy(criteria.maxComplexity)
            THEN SelectSeq(byKeyword, LAMBDA t :
                    ComplexityOrder(t.complexity)
                        <= ComplexityOrder(criteria.maxComplexity.s))
            ELSE byKeyword
        \* results is still templateIndex.templates when no filter made a
        \* new array.
        sameArray == /\ ~HasItems(criteria.categories)
                     /\ ~HasItems(criteria.resourceTypes)
                     /\ ~HasItems(criteria.keywords)
                     /\ ~Truthy(criteria.maxComplexity)
        sorted ==
            IF Truthy(criteria.sortBy)
            THEN TemplateIndexer_sortTemplates(byComplexity, criteria.sortBy.s)
            ELSE byComplexity
        limited ==
            IF HasLimit(criteria.limit) THEN Slice(sorted, criteria.limit.n)
            ELSE sorted
    IN [results |-> limited,
        templates |-> IF sameArray /\ Truthy(criteria.sortBy) THEN sorted ELSE templates]

\* Templates of an index: a BicepTemplate as far as searchTemplates reads it.
IndexedTemplate(id, name, size, category, description, tags, types, complexity) ==
    [id |-> id, name |-> name, size |-> size,
     metadata |-> [category |-> category, description |-> description, tags |-> tags],
     resourceTypes |-> [i \in 1..Len(types) |-> [type |-> types[i]]],
     complexity |-> complexity]

StorageTemplate ==
    IndexedTemplate("t1", "mainTemplate", 5000, "Storage", <<"Storage", "account">>,
                    <<"storage">>, <<"Microsoft.Storage/storageAccounts">>, "moderate")
WebAppTemplate ==
    IndexedTemplate("t2", "main", 2000, "Web", <<"webapp">>, <<>>,
                    <<"Microsoft.Web/sites", "Microsoft.Storage/storageAccounts">>,
                    "simple")
EmptyTemplate ==
    IndexedTemplate("t3", "azuredeploy", 2000, "General",
                    <<"Template:", "azuredeploy.json">>, <<>>, <<>>, "simple")
ComputeTemplate ==
    IndexedTemplate("t4", "main", 9000, "Storage", <<"cluster">>, <<"Storage">>,
                    <<"Microsoft.Compute/virtualMachines", "Microsoft.Storage/storageAccounts",
                      "Microsoft.Network/virtualNetworks">>, "complex")

\* The templates lists of the indexes that are searched.
Indexes ==
    { <<>>,
      <<StorageTemplate, WebAppTemplate, EmptyTemplate, ComputeTemplate>>,
      <<ComputeTemplate, EmptyTemplate, WebAppTemplate, StorageTemplate>> }

\* TemplateSearchCriteria: every member is optional.
Criterias ==
    [categories : {Undefined, Arr(<<>>), Arr(<<"Storage">>), Arr(<<"Web", "General">>)},
     resourceTypes : {Undefined, Arr(<<>>), Arr(<<"Microsoft.Storage">>),
                      Arr(<<"Microsoft.Network", "Microsoft.Web/sites/config">>)},
     keywords : {Undefined, Arr(<<"STORAGE">>), Arr(<<"zzz", "main">>)},
     maxComplexity : {Undefined, Str("simple"), Str("moderate"), Str("complex")},
     sortBy : {Undefined, Str("name"), Str("complexity"), Str("size"), Str("resources")},
     limit : {Undefined, Num(0), Num(1), Num(3)}]

(***************************************************************************)
(* TemplateIndexer.inferCategory: the category of a template, from the     *)
(* keywords its text includes.                                             *)
(***************************************************************************)
\* categoryKeywords, in the order of Object.entries.
CategoryKeywords ==
    << <<"Compute", {"vm", "virtual machine", "compute", "scale set"}>>,
       <<"Storage", {"storage", "blob", "file", "queue", "table"}>>,
       <<"Network", {"network", "vnet", "subnet", "nsg", "load balancer"}>>,
       <<"Database", {"sql", "database", "cosmos", "mysql", "postgresql"}>>,
       <<"Web", {"web", "app service", "function", "logic app"}>>,
       <<"Identity", {"active directory", "identity", "rbac", "managed identity"}>>,
       <<"Security", {"key vault", "security", "certificate", "firewall"}>>,
       <<"Monitoring", {"monitor", "log analytics", "application insights"}>>,
       <<"Container", {"container", "kubernetes", "aks", "docker"}>>,
       <<"AI", {"cognitive", "machine learning", "ai", "bot"}>> >>

\* An inferCategory that returns the last category that matches.
InferLastCategory(included) ==
    LET matches == {i \in 1..Len(CategoryKeywords) : CategoryKeywords[i][2] \cap included # {}} IN
    IF matches = {} THEN "General"
    ELSE CategoryKeywords[CHOOSE i \in matches : \A j \in matches : i >= j][1]

\* inferCategory, on the keywords that the lower-cased text of path, content
\* and description includes.
TemplateIndexer_inferCategory(included) ==
    LET matches == {i \in 1..Len(CategoryKeywords) : CategoryKeywords[i][2] \cap included # {}} IN
    IF matches = {} THEN "General"
    ELSE CategoryKeywords[CHOOSE i \in matches : \A j \in matches : i <= j][1]

\* String.prototype.toLowerCase, on ASCII text.
UpperCaseLetters == "ABCDEFGHIJKLMNOPQRSTUVWXYZ"
LowerCaseLetters == "abcdefghijklmnopqrstuvwxyz"
LowerCaseOf(char) ==
    IF \E i \in 1..Len(UpperCaseLetters) : SubSeq(UpperCaseLetters, i, i) = char
    THEN LET i == CHOOSE i \in 1..Len(UpperCaseLetters) : SubSeq(UpperCaseLetters, i, i) = char IN
         SubSeq(LowerCaseLetters, i, i)
    ELSE char
RECURSIVE String_toLowerCase(_)
String_toLowerCase(s) ==
    IF Len(s) <= 1 THEN LowerCaseOf(s)
    ELSE String_toLowerCase(SubSeq(s, 1, Len(s) \div 2))
            \o String_toLowerCase(SubSeq(s, Len(s) \div 2 + 1, Len(s)))

\* String.prototype.includes
String_includes(text, part) ==
    \E i \in 1..(Len(text) - Len(part) + 1) : SubSeq(text, i, i + Len(part) - 1) = part

\* `${path} ${content} ${description}`.toLowerCase()
CategoryText(path, content, description) ==
    String_toLowerCase(path \o " " \o content \o " " \o description)

\* The keywords for which keywords.some(keyword => text.includes(keyword))
\* looks in the text.
IncludedKeywords(text) ==
    { keyword \in UNION { CategoryKeywords[i][2] : i \in 1..Len(CategoryKeywords) } :
        String_includes(text, keyword) }

\* The paths, contents and descriptions that inferCategory is called with.
CategoryPaths ==
    { "", "main.bicep", "modules/redis/azuredeploy.json",
      "quickstarts/microsoft.compute/vm-simple-linux/azuredeploy.json",
      "quickstarts/Microsoft.Storage/Storage-Account/azuredeploy.json" }
CategoryContents ==
    { "", "virtual machine", "storage account", "virtual network", "sql database",
      "web app", "key vault", "container", "unknown service", "VM with Blob Storage",
      "Log Analytics workspace for a virtual" }
CategoryDescriptions ==
    { "", "Deploys a Storage Account", "machine learning workspace" }

(***************************************************************************)
(* The calls of the TemplateIndexer on one file.                           *)
(***************************************************************************)
ProcessTemplateFile(file) ==
    /\ extracted = NoExtract
    /\ extracted' = [fn |-> "processTemplateFile", input |-> file,
                     before |-> Undefined, after |-> Undefined,
                     result |-> ExtractFile(file.content, file.fileName)]
    /\ UNCHANGED <<cacheVars, parsed, indexing>>

\* searchTemplates(templateIndex, criteria): before and after are
\* templateIndex.templates at the call and at the return.
SearchTemplates(templates, criteria) ==
    /\ extracted = NoExtract
    /\ LET out == TemplateIndexer_searchTemplates(templates, criteria) IN
        extracted' = [fn |-> "searchTemplates", input |-> criteria,
                      before |-> Arr(templates), after |-> Arr(out.templates),
                      result |-> Arr(out.results)]
    /\ UNCHANGED <<cacheVars, parsed, indexing>>

\* inferCategory(path, content, description)
InferCategory(path, content, description) ==
    /\ extracted = NoExtract
    /\ extracted' = [fn |-> "inferCategory",
                     input |-> [path |-> path, content |-> content,
                                description |-> description],
                     before |-> Undefined, after |-> Undefined,
                     result |-> Str(TemplateIndexer_inferCategory(
                                    IncludedKeywords(
                                        CategoryText(path, content, description))))]
    /\ UNCHANGED <<cacheVars, parsed, indexing>>

\* The lists that the indexer's assessComplexity is called with: up to
\* these numbers of resource types, parameters and outputs.
MaxResources == 11
MaxParameters == 6
MaxOutputs == 30

\* assessComplexity(resourceTypes, parameters, outputs)
AssessTemplateComplexity(r, p, o) ==
    /\ extracted = NoExtract
    /\ extracted' = [fn |-> "assessComplexity", input |-> [r |-> r, p |-> p, o |-> o],
                     before |-> Undefined, after |-> Undefined,
                     result |-> Str(TemplateIndexer_assessComplexity(
                                        Listed(r), Listed(p), Listed(o)))]
    /\ UNCHANGED <<cacheVars, parsed, indexing>>

\* The caller has the result; the indexer keeps nothing of the call.
TakeResult ==
    /\ extracted # NoExtract
    /\ extracted' = NoExtract
    /\ UNCHANGED <<cacheVars, parsed, indexing>>

NextTemplates ==
    \/ \E file \in TemplateFiles : ProcessTemplateFile(file)
    \/ \E templates \in Indexes, criteria \in Criterias :
            SearchTemplates(templates, criteria)
    \/ \E path \in CategoryPaths, content \in CategoryContents,
            description \in CategoryDescriptions :
            InferCategory(path, content, description)
    \/ \E r \in 0..MaxResources, p \in 0..MaxParameters, o \in 0..MaxOutputs :
            AssessTemplateComplexity(r, p, o)
    \/ TakeResult

SpecTemplates == Init /\ [][NextTemplates]_vars

(***************************************************************************)
(* TemplateIndexer.indexTemplates: the batch loop over the template files  *)
(* of the repository index, one step per task that settles.                *)
(***************************************************************************)
BatchSize == 10     \* const batchSize = 10
MaxFiles == 11      \* the files of the longest listing

\* The decimal digits of a directory number.
RECURSIVE Decimal(_)
Decimal(n) ==
    LET digit == <<"0", "1", "2", "3", "4", "5", "6", "7", "8", "9">>[(n % 10) + 1] IN
    IF n < 10 THEN digit ELSE Decimal(n \div 10) \o digit

WebTemplate == ArmTemplate(Arr(<<SiteResource>>), Undefined, Undefined)

\* The ARM template of directory n: a site, in two of the directories with
\* properties.
SiteTemplate(n) ==
    LET site(properties) ==
            ObjOf(<< <<"type", Str("Microsoft.Web/sites")>>,
                     <<"properties", ObjOf(properties)>> >>) IN
    CASE n = 4 -> ArmTemplate(Arr(<<site(<< <<"httpsOnly", Bool(TRUE)>> >>)>>),
                              Undefined, Undefined)
      [] n = 7 -> ArmTemplate(Arr(<<site(<< <<"httpsOnly", Bool(TRUE)>>,
                                             <<"serverFarmId", Str("plan")>> >>)>>),
                              Undefined, Undefined)
      [] OTHER -> WebTemplate

\* The files of the repository index: directory n holds a README.md and one
\* template, a Bicep file, an ARM template or an empty mainTemplate.json in
\* turn.
RepositoryFile(n, name) ==
    [name |-> name, path |-> "quickstarts/t" \o Decimal(n) \o "/" \o name, size |-> n]
TemplateFileOf(n) ==
    RepositoryFile(n, <<"main.bicep", "azuredeploy.json", "mainTemplate.json">>[(n % 3) + 1])
RepositoryFiles(count) ==
    [i \in 1..(2 * count) |->
        IF i % 2 = 1 THEN RepositoryFile((i + 1) \div 2, "README.md")
        ELSE TemplateFileOf(i \div 2)]

\* The content that getRawFileContent gives for a template file.
ContentOf(file) ==
    CASE file.name = "main.bicep" -> BicepText
      [] file.name = "azuredeploy.json" -> JSON_stringify(SiteTemplate(file.size))
      [] OTHER -> <<Punct("{"), Punct("}")>>

\* The keywords of categoryKeywords that the lower-cased path and content of
\* the file include ("main" includes "ai").
KeywordsOf(file) ==
    CASE file.name = "main.bicep" -> {"storage", "ai"}
      [] file.name = "azuredeploy.json" -> {"web"}
      [] OTHER -> {"ai"}

\* bicepExtensions.some(ext => file.name.endsWith(ext)) || file.name === ...
IsTemplateName(name) == name \in {"main.bicep", "azuredeploy.json", "mainTemplate.json"}

\* The BicepTemplate that processTemplateFile returns for a file whose
\* content was fetched.
BicepTemplate(file) ==
    LET parts == ExtractFile(ContentOf(file), file.name) IN
    [id |-> Config.owner \o "/" \o Config.repo \o "/" \o file.path,
     path |-> file.path,
     fileName |-> file.name,
     size |-> file.size,
     category |-> TemplateIndexer_inferCategory(KeywordsOf(file)),
     resourceTypes |-> parts.resourceTypes,
     parameters |-> parts.parameters,
     outputs |-> parts.outputs,
     complexity |-> parts.complexity]

\* processTemplateFile's template for each template file of the repository.
ProcessedTemplates ==
    [file \in {TemplateFileOf(n) : n \in 1..MaxFiles} |-> BicepTemplate(file)]

\* The numbers of template directories of the repositories that are indexed:
\* none, one, and more than a batch.
Counts == {0, 1, MaxFiles}

Pending == [status |-> "pending"]
Fulfilled(value) == [status |-> "fulfilled", value |-> value]

\* categories.set(category, (categories.get(category) || 0) + 1), on the Map
\* in insertion order.
CountCategory(categories, category) ==
    IF \E i \in 1..Len(categories) : categories[i][1] = category
    THEN [i \in 1..Len(categories) |->
            IF categories[i][1] = category
            THEN <<category, categories[i][2] + 1>> ELSE categories[i]]
    ELSE Append(categories, <<category, 1>>)

\* The update of the resourceTypes Map for the resource types of a template.
RECURSIVE CountResourceTypes(_, _)
CountResourceTypes(resourceTypes, found) ==
    IF found = <<>> THEN resourceTypes
    ELSE LET resourceType == Head(found).f
             existing == {i \in 1..Len(resourceTypes) :
                            resourceTypes[i].type = resourceType.type} IN
         CountResourceTypes(
            IF existing # {}
            THEN [i \in 1..Len(resourceTypes) |->
                    IF i \in existing
                    THEN [resourceTypes[i] EXCEPT !.templateCount = @ + 1]
                    ELSE resourceTypes[i]]
            ELSE Append(resourceTypes,
                        [type |-> resourceType.type, templateCount |-> 1,
                         commonProperties |-> AddAll(<<>>, resourceType.properties.a),
                         provider |-> resourceType.provider]),
            Tail(found))

\* A merge that stops at the first task that gave no template.
RECURSIVE MergeUntilFailure(_, _, _)
MergeUntilFailure(run, results, p) ==
    IF p > Len(results) \/ results[p].value = Null THEN run
    ELSE MergeUntilFailure(
            [run EXCEPT
                !.templates = Append(@, results[p].value),
                !.categories = CountCategory(@, results[p].value.category),
                !.resourceTypes = CountResourceTypes(@, results[p].value.resourceTypes)],
            results, p + 1)

\* for (const result of batchResults): the results from position p on are
\* merged into the run.
RECURSIVE Merge(_, _, _)
Merge(run, results, p) ==
    IF p > Len(results) THEN run
    ELSE Merge(IF results[p].status = "fulfilled" /\ results[p].value # Null
               THEN [run EXCEPT
                        !.templates = Append(@, results[p].value),
                        !.categories = CountCategory(@, results[p].value.category),
                        !.resourceTypes = CountResourceTypes(@, results[p].value.resourceTypes)]
               ELSE run,
               results, p + 1)

\* The TemplateIndex of a run.
IndexOf(run) ==
    Obj([totalTemplates |-> Num(Len(run.templates)),
         templates |-> Arr(run.templates),
         categories |-> ObjOf([i \in 1..Len(run.categories) |->
                                <<run.categories[i][1], Num(run.categories[i][2])>>]),
         resourceTypes |-> Arr(run.resourceTypes)])

\* A loop that starts the tasks of all the remaining files at once.
StartRest(run, i) ==
    [run EXCEPT !.stage = "batch", !.i = i,
                !.inflight = (i + 1)..Len(run.files),
                !.results = [k \in 1..(Len(run.files) - i) |-> Pending],
                !.started = @ \cup ((i + 1)..Len(run.files))]

\* batch = templateFiles.slice(i, i + batchSize): its tasks are started.
StartBatch(run, i) ==
    LET last_ == IF i + BatchSize < Len(run.files) THEN i + BatchSize ELSE Len(run.files) IN
    [run EXCEPT !.stage = "batch", !.i = i,
                !.inflight = (i + 1)..last_,
                !.results = [k \in 1..(last_ - i) |-> Pending],
                !.started = @ \cup ((i + 1)..last_)]

\* The index is built, cached for 4 hours and returned.
Finish(run) ==
    /\ indexing' = [run EXCEPT !.stage = "done", !.index = IndexOf(run)]
    /\ cache' = CacheManager_set(cache, TemplateIndexKey, IndexOf(run),
                                 Num(TemplateIndexTtl), now)

\* indexTemplates is called on a repository with count template directories.
IndexRepository(count) ==
    LET files == SelectSeq(RepositoryFiles(count), LAMBDA file : IsTemplateName(file.name))
        run == [indexing EXCEPT !.files = files] IN
    /\ indexing.stage = "idle"
    /\ ~Truthy(CacheManager_get(cache, TemplateIndexKey, now).res)
    /\ IF files = <<>>
       THEN Finish(run)
       ELSE indexing' = StartBatch(run, 0) /\ UNCHANGED cache
    /\ UNCHANGED <<now, cacheGhost, clientVars, analysisVars>>

\* The task of the file at position p settles: processTemplateFile gives the
\* template, or null when the content could not be fetched.
TaskSettles(p, fetched) ==
    /\ indexing.stage = "batch"
    /\ p \in indexing.inflight
    /\ indexing' = [indexing EXCEPT
            !.inflight = @ \ {p},
            !.results[p - indexing.i] =
                Fulfilled(IF fetched THEN ProcessedTemplates[indexing.files[p]] ELSE Null),
            !.succeeded = IF fetched THEN @ \cup {p} ELSE @]
    /\ UNCHANGED <<cache, now, cacheGhost, clientVars, analysisVars>>

\* Promise.allSettled(batchPromises) resolves: the results are merged, and
\* the run sleeps before the next batch or finishes.
MergeBatch ==
    LET run == [Merge(indexing, indexing.results, 1) EXCEPT
                    !.merged = @ \cup indexing.started] IN
    /\ indexing.stage = "batch"
    /\ indexing.inflight = {}
    /\ IF indexing.i + BatchSize < Len(indexing.files)
       THEN indexing' = [run EXCEPT !.stage = "sleep"] /\ UNCHANGED cache
       ELSE Finish(run)
    /\ UNCHANGED <<now, cacheGhost, clientVars, analysisVars>>

\* await this.sleep(500) is over: the next batch starts.
Wake ==
    /\ indexing.stage = "sleep"
    /\ indexing' = StartBatch(indexing, indexing.i + BatchSize)
    /\ UNCHANGED <<cache, now, cacheGhost, clientVars, analysisVars>>

NextIndex ==
    \/ \E count \in Counts : IndexRepository(count)
    \/ \E p \in 1..MaxFiles, fetched \in BOOLEAN : TaskSettles(p, fetched)
    \/ MergeBatch
    \/ Wake

SpecIndex == Init /\ [][NextIndex]_vars

(***************************************************************************)
(* Helpers of the properties.                                              *)
(***************************************************************************)
Range(c) == {c[i] : i \in 1..Len(c)}

\* The entries of d are entries of c, in the order they have in c.
KeepsOrder(c, d) ==
    \A i, j \in 1..Len(d) :
        i < j => /\ MapHas(c, d[i].key) /\ MapHas(c, d[j].key)
                 /\ MapIndex(c, d[i].key) < MapIndex(c, d[j].key)

(***************************************************************************)
(* C1: size() never exceeds maxSize, whatever the calls and the keys (the  *)
(* empty string included).                                                 *)
(***************************************************************************)
C1_SizeNeverExceedsMaxSize == CacheManager_size(cache) <= MaxSize

(***************************************************************************)
(* C2: a set of a key that is not stored, on a store holding exactly       *)
(* maxSize entries, removes exactly the entry that is first in insertion   *)
(* order; every other entry is still stored and the key is stored with the *)
(* value given.                                                            *)
(***************************************************************************)
C2_SetAtCapacityEvictsOldest ==
    [][(last'.op = "set" /\ Len(cache) = MaxSize /\ ~MapHas(cache, last'.key)) =>
            /\ ~MapHas(cache', cache[1].key)
            /\ \A i \in 2..Len(cache) : cache[i] \in Range(cache')
            /\ CacheManager_size(cache') = MaxSize
            /\ MapHas(cache', last'.key)
            /\ MapGet(cache', last'.key).value = last'.value]_vars

(***************************************************************************)
(* C3: a set of a key that is already stored removes no other entry, even  *)
(* at capacity: the stored keys and size() are the same before and after.  *)
(***************************************************************************)
C3_SetOfStoredKeyEvictsNothing ==
    [][(last'.op = "set" /\ MapHas(cache, last'.key)) =>
            /\ MapKeys(cache') = MapKeys(cache)
            /\ CacheManager_size(cache') = CacheManager_size(cache)]_vars

(***************************************************************************)
(* C4: lazy expiry with an exact boundary.  set(k, v, ttl) at time t       *)
(* stores insertion time t and time-to-live d = ttl, or the default when   *)
(* no ttl is given; get(k) and has(k) at time now hit exactly when         *)
(* now - t <= d, and when now - t > d they report a miss and remove the    *)
(* entry, so that size() drops by one.                                     *)
(***************************************************************************)
C4_LazyExpiryExactBoundary ==
    [][/\ last'.op = "set" =>
            /\ MapGet(cache', last'.key).timestamp = now
            /\ MapGet(cache', last'.key).ttl =
                   IF last'.ttl = Undefined THEN DefaultTtl ELSE last'.ttl.n
       /\ (last'.op \in {"get", "has"} /\ MapHas(cache, last'.key)) =>
            LET e == MapGet(cache, last'.key) IN
            IF now - e.timestamp <= e.ttl
            THEN /\ last'.res = IF last'.op = "get" THEN e.value ELSE Bool(TRUE)
                 /\ MapHas(cache', last'.key)
                 /\ CacheManager_size(cache') = CacheManager_size(cache)
            ELSE /\ last'.res = IF last'.op = "get" THEN Undefined ELSE Bool(FALSE)
                 /\ ~MapHas(cache', last'.key)
                 /\ CacheManager_size(cache') = CacheManager_size(cache) - 1]_vars

\* A get that hits at the boundary now - t = d, with d > 0.
C4_Witness ==
    /\ last.op = "get"
    /\ MapHas(cache, last.key)
    /\ last.res = MapGet(cache, last.key).value
    /\ MapGet(cache, last.key).ttl > 0
    /\ now - MapGet(cache, last.key).timestamp = MapGet(cache, last.key).ttl

(***************************************************************************)
(* C6: cleanup() removes exactly the expired entries: afterwards no stored *)
(* entry is expired, and every entry that was stored and not expired is    *)
(* still stored, unchanged and in the same relative order.                 *)
(***************************************************************************)
C6_CleanupRemovesExactlyExpired ==
    [][last'.op = "cleanup" =>
        /\ \A e \in Range(cache') : ~(now - e.timestamp > e.ttl)
        /\ \A e \in Range(cache) : ~(now - e.timestamp > e.ttl) => e \in Range(cache')
        /\ Range(cache') \subseteq Range(cache)
        /\ KeepsOrder(cache, cache')]_vars

\* A cleanup that removed an entry and kept two, one of them at the
\* boundary now - t = d.
C6_Witness ==
    /\ last.op = "cleanup"
    /\ CacheManager_size(cache) < last.before
    /\ CacheManager_size(cache) >= 2
    /\ \E e \in Range(cache) : now - e.timestamp = e.ttl

(***************************************************************************)
(* C5: a get that hits returns the stored value and makes the key the most *)
(* recent of the eviction order: a later set of a new key evicts it only   *)
(* when every other entry that was stored at the time of the get, and has  *)
(* not been read since, is gone.                                           *)
(***************************************************************************)
C5_GetRefreshesEvictionOrder ==
    [][/\ (last'.op = "get" /\ MapHas(cache', last'.key)) =>
            /\ last'.res = MapGet(cache, last'.key).value
            /\ cache'[Len(cache')].key = last'.key
       /\ (track.on /\ last'.op = "set" /\ ~MapHas(cache, last'.key)
             /\ MapHas(cache, track.k) /\ ~MapHas(cache', track.k)) =>
            track.others \cap MapKeys(cache) = {}]_vars

(***************************************************************************)
(* C7: memoization of upstream lookups.  A call of getRepositoryContents,  *)
(* getRawFileContent or indexTemplates that finds the result of an earlier *)
(* identical call stored (not expired, not evicted) returns the stored     *)
(* result and issues no upstream request, whatever that result is.         *)
(***************************************************************************)
C7_StoredResultIsServedFromCache ==
    (call.fn \in {"getRepositoryContents", "getRawFileContent", "indexTemplates"}
        /\ call.stored) =>
        /\ call.hit
        /\ call.res = call.value
        /\ call.issued = 0

(***************************************************************************)
(* C8: refresh_data_sources clears the cached search results: the first    *)
(* searchPolicyFiles after it, with arguments whose result was cached when *)
(* it ran, is not served from the cache.                                   *)
(***************************************************************************)
C8_RefreshClearsSearchCache ==
    (call.fn = "searchPolicyFiles" /\ call.afterRefresh) => ~call.hit

(***************************************************************************)
(* C9: parsePolicy on a text that is not valid JSON throws, and the error  *)
(* it throws is a PolicyParsingError.                                      *)
(***************************************************************************)
C9_InvalidJsonThrowsPolicyParsingError ==
    (parsed.fn = "parsePolicy" /\ ~JSON_parse(parsed.input).ok) =>
        /\ parsed.outcome.threw
        /\ parsed.outcome.error = "PolicyParsingError"

(***************************************************************************)
(* C10: analyzePolicyDefinition on a valid policy definition never throws, *)
(* gives the same record when it is applied to the same arguments again,   *)
(* and fills the defaults: category "General", version undefined,          *)
(* deprecated false and preview false for what the metadata (or the whole  *)
(* metadata) lacks, and no parameters when the policy has none.            *)
(***************************************************************************)
Lacks(metadata, k) == Nullish(metadata) \/ Member(metadata, k) = Undefined

C10_AnalyzeIsTotalWithDefaults ==
    (parsed.fn = "analyzePolicyDefinition" /\ ValidPolicyDefinition(parsed.input)) =>
        LET props == Member(parsed.input, "properties")
            metadata == Member(props, "metadata")
            result == parsed.outcome.value.f IN
        /\ ~parsed.outcome.threw
        /\ parsed.outcome
             = Outcome(PolicyParser_analyzePolicyDefinition(parsed.input, parsed.id))
        /\ Lacks(metadata, "category") => result.category = Str("General")
        /\ Lacks(metadata, "version") => result.version = Undefined
        /\ Lacks(metadata, "deprecated") => result.deprecated = Bool(FALSE)
        /\ Lacks(metadata, "preview") => result.preview = Bool(FALSE)
        /\ Nullish(Member(props, "parameters")) => result.parameters = Arr(<<>>)

\* A policy without metadata and without parameters has been analyzed.
C10_Witness ==
    /\ parsed.fn = "analyzePolicyDefinition"
    /\ ValidPolicyDefinition(parsed.input)
    /\ Member(Member(parsed.input, "properties"), "metadata") = Undefined
    /\ Member(Member(parsed.input, "properties"), "parameters") = Undefined
    /\ ~parsed.outcome.threw
    /\ parsed.outcome.value.f.category = Str("General")

(***************************************************************************)
(* C11: validatePolicy never throws on a policy object, whatever it lacks  *)
(* (properties, policyRule, if, then, a parameter's type, a parameter that *)
(* is null): it returns a result, and isValid is true exactly when errors  *)
(* is empty.                                                               *)
(***************************************************************************)
C11_ValidateReportsDefectsAsData ==
    (parsed.fn = "validatePolicy" /\ IsObject(parsed.input)) =>
        /\ ~parsed.outcome.threw
        /\ parsed.outcome.value.f.isValid = Bool(parsed.outcome.value.f.errors = Arr(<<>>))

(***************************************************************************)
(* C12: when the extraction of one kind fails for a file (the text is not  *)
(* JSON, or an element of resources, parameters or outputs has not the     *)
(* shape the code reads, whatever precedes it), that kind is the empty     *)
(* list for the file; the three kinds are extracted whatever the others    *)
(* did.                                                                    *)
(***************************************************************************)
\* The template of a JSON file, or undefined when the text is not JSON.
TemplateOf(file) ==
    IF JSON_parse(file.content).ok THEN JSON_parse(file.content).value ELSE Undefined

\* The elements of the template's member: of an array, or of an object's
\* values.
ElementsOf(file, member) ==
    LET v == OptMember(TemplateOf(file), member) IN
    IF v.t = "array" THEN v.a
    ELSE IF v.t = "object" THEN [i \in 1..Len(v.keys) |-> v.f[v.keys[i]]]
    ELSE <<>>

\* The extraction of the kind fails for the JSON file.
ExtractionFails(file, member) ==
    /\ ~EndsWithBicep(file.fileName)
    /\ \/ ~JSON_parse(file.content).ok
       \/ TemplateOf(file) = Null
       \/ \E i \in 1..Len(ElementsOf(file, member)) :
            IF member = "resources"
            THEN ResourceThrows(ElementsOf(file, member)[i])
            ELSE Nullish(ElementsOf(file, member)[i])

C12_FailedExtractionGivesEmptyList ==
    extracted.fn = "processTemplateFile" =>
        /\ ExtractionFails(extracted.input, "resources") => extracted.result.resourceTypes = <<>>
        /\ ExtractionFails(extracted.input, "parameters") => extracted.result.parameters = <<>>
        /\ ExtractionFails(extracted.input, "outputs") => extracted.result.outputs = <<>>

(***************************************************************************)
(* C13: a run of indexTemplates that has finished has an index, whatever   *)
(* tasks failed: its templates are the templates of the files whose task   *)
(* succeeded, in the order of the listing, totalTemplates is their number  *)
(* and so is the sum of the counts of categories; the index is the one     *)
(* that is cached.                                                         *)
(***************************************************************************)
RECURSIVE SumOf(_)
SumOf(counts) == IF counts = <<>> THEN 0 ELSE Head(counts).n + SumOf(Tail(counts))

\* The templates of the files at the positions from p on that succeeded.
RECURSIVE SucceededFrom(_)
SucceededFrom(p) ==
    IF p > Len(indexing.files) THEN <<>>
    ELSE (IF p \in indexing.succeeded
          THEN <<ProcessedTemplates[indexing.files[p]]>> ELSE <<>>) \o SucceededFrom(p + 1)

C13_IndexHoldsTheSucceededFiles ==
    indexing.stage = "done" =>
        LET index == indexing.index.f IN
        /\ index.templates.a = SucceededFrom(1)
        /\ index.totalTemplates = Num(Len(index.templates.a))
        /\ SumOf([i \in 1..Len(index.categories.keys) |->
                    index.categories.f[index.categories.keys[i]]])
             = Len(index.templates.a)
        /\ MapHas(cache, TemplateIndexKey)
        /\ MapGet(cache, TemplateIndexKey).value = indexing.index

\* A run over more than a batch has finished; some tasks failed, in the first
\* batch and in the second, and some succeeded.
C13_Witness ==
    /\ indexing.stage = "done"
    /\ Len(indexing.files) > BatchSize
    /\ indexing.succeeded # {}
    /\ \E p \in 1..BatchSize : p \notin indexing.succeeded
    /\ \E p \in (BatchSize + 1)..Len(indexing.files) : p \notin indexing.succeeded

(***************************************************************************)
(* C14: at most 10 tasks are in flight at any instant, and a task is       *)
(* started only when every task of the batches before its own has settled  *)
(* and has been merged.                                                    *)
(***************************************************************************)
BatchOf(p) == (p - 1) \div BatchSize

C14_BatchesAreBoundedAndSequential ==
    /\ Cardinality(indexing.inflight) <= BatchSize
    /\ \A p \in indexing.started, q \in 1..Len(indexing.files) :
            BatchOf(q) < BatchOf(p) => q \in indexing.merged /\ q \notin indexing.inflight

\* The second batch is in flight.
C14_Witness ==
    /\ indexing.stage = "batch"
    /\ \E p \in indexing.inflight : BatchOf(p) = 1
    /\ Cardinality(indexing.merged) = BatchSize

(***************************************************************************)
(* C15: searchTemplates leaves the index it is given as it was: the        *)
(* templates list has the same records in the same order after the call,   *)
(* whatever the criteria.                                                  *)
(***************************************************************************)
C15_SearchLeavesTheIndexUnchanged ==
    extracted.fn = "searchTemplates" => extracted.after = extracted.before

(***************************************************************************)
(* C16: searchTemplates returns limit(sort(filter(templates))): the filter *)
(* keeps, in index order, the records that satisfy every criterion given,  *)
(* the sort orders them by the key of sortBy (index order without sortBy), *)
(* the limit keeps the first N.                                            *)
(***************************************************************************)
\* t satisfies the criteria; Given says which list criteria are to be applied.
Satisfies(t, criteria, Given(_)) ==
    /\ Given(criteria.categories) =>
            t.metadata.category \in Range(criteria.categories.a)
    /\ Given(criteria.resourceTypes) =>
            \E type \in {rt.type : rt \in Range(t.resourceTypes)},
               query \in Range(criteria.resourceTypes.a) :
                StringIncludes(type, query) \/ StringIncludes(query, type)
    /\ Given(criteria.keywords) =>
            \E keyword \in Range(criteria.keywords.a) :
                TextIncludes(SearchText(t), keyword)
    /\ criteria.maxComplexity # Undefined =>
            ComplexityOrder(t.complexity) <= ComplexityOrder(criteria.maxComplexity.s)

\* The key that sortBy orders by, ascending.
SortKey(sortBy, t) ==
    CASE sortBy = "name" -> NameRank(t.name)
      [] sortBy = "complexity" -> ComplexityOrder(t.complexity)
      [] sortBy = "size" -> t.size
      [] sortBy = "resources" -> 0 - Len(t.resourceTypes)

\* s has the records of kept, each once, in ascending order of the key.
IsSortOf(s, kept, sortBy) ==
    /\ Len(s) = Len(kept)
    /\ Range(s) = Range(kept)
    /\ \A i, j \in 1..Len(s) : i < j => SortKey(sortBy, s[i]) <= SortKey(sortBy, s[j])

\* result is limit(sort(filter(templates))); Limits says which limits are
\* applied.
IsSearchResult(result, templates, criteria, Given(_), Limits(_)) ==
    LET kept == SelectSeq(templates, LAMBDA t : Satisfies(t, criteria, Given))
        n == IF Limits(criteria.limit) /\ criteria.limit.n < Len(kept)
             THEN criteria.limit.n ELSE Len(kept)
    IN IF criteria.sortBy = Undefined
       THEN result = SubSeq(kept, 1, n)
       ELSE /\ Len(result) = n
            /\ \E rest \in [1..(Len(kept) - n) -> Range(kept)] :
                    IsSortOf(result \o rest, kept, criteria.sortBy.s)

IsGiven(list) == list # Undefined
IsGivenAndNotEmpty(list) == list # Undefined /\ list.a # <<>>
IsPositive(limit) == limit # Undefined /\ limit.n > 0

\* The claim as it is stated: every criterion that is given is applied.
C16_SearchIsLimitOfSortOfFilter ==
    extracted.fn = "searchTemplates" =>
        IsSearchResult(extracted.result.a, extracted.before.a, extracted.input,
                       IsGiven, IsGiven)

\* Amended: a list criterion is applied when it is given and not empty, a
\* limit when it is positive.
C16_SearchIsLimitOfSortOfFilterAmended ==
    extracted.fn = "searchTemplates" =>
        IsSearchResult(extracted.result.a, extracted.before.a, extracted.input,
                       IsGivenAndNotEmpty, IsPositive)

\* A search with every criterion, a sort and a limit that cuts.
C16_Witness ==
    /\ extracted.fn = "searchTemplates"
    /\ IsGivenAndNotEmpty(extracted.input.categories)
    /\ IsGivenAndNotEmpty(extracted.input.resourceTypes)
    /\ IsGivenAndNotEmpty(extracted.input.keywords)
    /\ extracted.input.maxComplexity # Undefined
    /\ extracted.input.sortBy = Str("size")
    /\ extracted.input.limit = Num(1)
    /\ Len(extracted.result.a) = 1
    /\ extracted.result.a[1] # extracted.before.a[1]
    /\ Len(SelectSeq(extracted.before.a,
           LAMBDA t : Satisfies(t, extracted.input, IsGivenAndNotEmpty))) > 1

(***************************************************************************)
(* The condition tree of a policy, read as the data model describes it.    *)
(***************************************************************************)
\* The 17 comparison operators of PolicyCondition.
ComparisonOperators ==
    { "equals", "notEquals", "like", "notLike", "match", "notMatch", "contains",
      "notContains", "in", "notIn", "containsKey", "notContainsKey", "less",
      "lessOrEquals", "greater", "greaterOrEquals", "exists" }

\* policyRule.if of the policy of the call.
TreeOf(policy) == Member(Member(Member(policy, "properties"), "policyRule"), "if")

RECURSIVE NodesOf(_)
RECURSIVE NodesOfAll(_)

\* Every node of the tree: under allOf, anyOf, not and a count's where.
NodesOf(node) ==
    IF node.t # "object" THEN {}
    ELSE {node}
         \cup (IF "allOf" \in DOMAIN node.f THEN NodesOfAll(node.f.allOf.a) ELSE {})
         \cup (IF "anyOf" \in DOMAIN node.f THEN NodesOfAll(node.f.anyOf.a) ELSE {})
         \cup (IF "not" \in DOMAIN node.f THEN NodesOf(node.f["not"]) ELSE {})
         \cup (IF "count" \in DOMAIN node.f /\ "where" \in DOMAIN node.f.count.f
               THEN NodesOf(node.f.count.f.where) ELSE {})

NodesOfAll(nodes) ==
    IF nodes = <<>> THEN {} ELSE NodesOf(Head(nodes)) \cup NodesOfAll(Tail(nodes))

\* The field nodes of the tree, and those of one field.
FieldNodes(tree) == {node \in NodesOf(tree) : "field" \in DOMAIN node.f}
NodesOfField(tree, field) == {node \in FieldNodes(tree) : node.f.field = field}

\* The comparison operators on a node.
ComparisonsOf(node) == DOMAIN node.f \cap ComparisonOperators

\* A policy has been analyzed: its rules are in the result.
Analyzed ==
    /\ parsed.fn = "analyzePolicyDefinition"
    /\ ValidPolicyDefinition(parsed.input)
    /\ ~parsed.outcome.threw

\* The field checks of the result.
FieldChecksOfResult == parsed.outcome.value.f.rules.f.fieldChecks.a

(***************************************************************************)
(* C17: the field checks have exactly one FieldCheck per field name of a   *)
(* field node anywhere in the tree (a count's where included); it lists    *)
(* every comparison operator that a node applies to the field, with the    *)
(* operand at the same index of values; operators and values have the same *)
(* length.                                                                 *)
(***************************************************************************)
C17_FieldChecksAreCompleteAndKeyedByField ==
    Analyzed =>
        LET tree == TreeOf(parsed.input)
            checks == FieldChecksOfResult
            fields == {node.f.field : node \in FieldNodes(tree)} IN
        /\ {checks[i].f.field : i \in 1..Len(checks)} = fields
        /\ Len(checks) = Cardinality(fields)
        /\ \A i \in 1..Len(checks) :
            /\ Len(checks[i].f.operators.a) = Len(checks[i].f.values.a)
            /\ \A node \in NodesOfField(tree, checks[i].f.field) :
                \A op \in ComparisonsOf(node) :
                    \E j \in 1..Len(checks[i].f.operators.a) :
                        /\ checks[i].f.operators.a[j] = Str(op)
                        /\ checks[i].f.values.a[j] = node.f[op]

(***************************************************************************)
(* C18: required of a FieldCheck is true exactly when some node of the     *)
(* tree applies exists = true to the field, whether that node is the first *)
(* occurrence of the field or a later one.                                 *)
(***************************************************************************)
C18_RequiredIffSomeExistsTrue ==
    Analyzed =>
        \A i \in 1..Len(FieldChecksOfResult) :
            LET check == FieldChecksOfResult[i].f IN
            check.required
                = Bool(\E node \in NodesOfField(TreeOf(parsed.input), check.field) :
                            /\ "exists" \in DOMAIN node.f
                            /\ node.f.exists = Bool(TRUE))

(***************************************************************************)
(* C19: the field checks do not depend on the order of the children of an  *)
(* allOf: the tree with the children permuted gives the same fields, with  *)
(* the same operator/value pairs as often and the same required flag,      *)
(* while the listing of the conditions follows the order of the children.  *)
(***************************************************************************)
\* The orders of n children: the permutations of 1..n.
OrdersOf(n) == {p \in [1..n -> 1..n] : \A i, j \in 1..n : p[i] = p[j] => i = j}

\* The tree with the children of its allOf in the order p.
Permuted(tree, p) ==
    [tree EXCEPT !.f.allOf.a = [i \in 1..Len(@) |-> @[p[i]]]]

\* How often the check applies the operator with the operand.
TimesApplied(check, op, value) ==
    Cardinality({j \in 1..Len(check.operators.a) :
                    check.operators.a[j] = op /\ check.values.a[j] = value})

\* The two lists of field checks have the same entries.
SameFieldChecks(a, b) ==
    /\ Len(a) = Len(b)
    /\ \A i \in 1..Len(a) : \E k \in 1..Len(b) :
        /\ a[i].f.field = b[k].f.field
        /\ a[i].f.required = b[k].f.required
        /\ Len(a[i].f.operators.a) = Len(b[k].f.operators.a)
        /\ \A j \in 1..Len(a[i].f.operators.a) :
            TimesApplied(a[i].f, a[i].f.operators.a[j], a[i].f.values.a[j])
                = TimesApplied(b[k].f, a[i].f.operators.a[j], a[i].f.values.a[j])

C19_FieldChecksAreOrderIndependent ==
    (Analyzed /\ "allOf" \in DOMAIN TreeOf(parsed.input).f) =>
        LET tree == TreeOf(parsed.input) IN
        \A p \in OrdersOf(Len(tree.f.allOf.a)) :
            /\ SameFieldChecks(FieldChecksOfResult,
                               PolicyParser_extractFieldChecks(Permuted(tree, p)))
            /\ PolicyParser_extractConditions(Permuted(tree, p))[1].f.nested.a
                 = FlatMapConditions([i \in 1..Len(tree.f.allOf.a) |->
                                            tree.f.allOf.a[p[i]]])

(***************************************************************************)
(* C20: the listing of the conditions mirrors the tree, depth-first and in *)
(* the order of the input: a logical node gives one entry, with the        *)
(* listing of its children in their order as nested; a field node gives    *)
(* one entry for each comparison operator on it, containsKey and           *)
(* notContainsKey included; a count node gives one entry, with the listing *)
(* of its where as nested, or none; an empty node gives nothing.           *)
(***************************************************************************)
RECURSIVE ListingOf(_)
RECURSIVE ListingOfAll(_)

ListingOf(node) ==
    IF node.t # "object" THEN <<>>
    ELSE LET keys == node.keys
             entries(k) ==
                IF k \in {"allOf", "anyOf"}
                THEN << Obj([type |-> Str("logical"), operator |-> Str(k),
                             nested |-> Arr(ListingOfAll(node.f[k].a))]) >>
                ELSE IF k = "not"
                THEN << Obj([type |-> Str("logical"), operator |-> Str(k),
                             nested |-> Arr(ListingOf(node.f[k]))]) >>
                ELSE IF k = "count"
                THEN << Obj([type |-> Str("function"), operator |-> Str(k),
                             field |-> Member(node.f[k], "field"),
                             value |-> node.f[k],
                             nested |-> Arr(IF "where" \in DOMAIN node.f[k].f
                                            THEN ListingOf(node.f[k].f.where)
                                            ELSE <<>>)]) >>
                ELSE IF k \in ComparisonOperators /\ "field" \in DOMAIN node.f
                THEN << Obj([type |-> Str("field"), operator |-> Str(k),
                             field |-> node.f.field, value |-> node.f[k]]) >>
                ELSE <<>>
             listed[i \in 0..Len(keys)] ==
                IF i = 0 THEN <<>> ELSE listed[i - 1] \o entries(keys[i]) IN
         listed[Len(keys)]

ListingOfAll(nodes) ==
    IF nodes = <<>> THEN <<>> ELSE ListingOf(Head(nodes)) \o ListingOfAll(Tail(nodes))

C20_ConditionListingMirrorsTheTree ==
    Analyzed =>
        parsed.outcome.value.f.rules.f.conditions.a = ListingOf(TreeOf(parsed.input))

(***************************************************************************)
(* C21: the complexity of a policy is a function of the numbers c of       *)
(* listed conditions, o of logical operators and f of field checks: simple *)
(* iff c <= 3, o <= 1 and f <= 2; otherwise moderate iff c <= 8, o <= 3    *)
(* and f <= 5; otherwise complex.                                          *)
(***************************************************************************)
IsComplexityOf(complexity, c, o, f) ==
    LET simple == c <= 3 /\ o <= 1 /\ f <= 2
        moderate == ~simple /\ c <= 8 /\ o <= 3 /\ f <= 5 IN
    /\ complexity = "simple" <=> simple
    /\ complexity = "moderate" <=> moderate
    /\ complexity = "complex" <=> ~simple /\ ~moderate

\* The rules of the result of an analyzed policy.
RulesOfResult == parsed.outcome.value.f.rules.f

C21_ComplexityIsAFunctionOfTheCounts ==
    /\ parsed.fn = "assessComplexity" =>
            IsComplexityOf(parsed.outcome.value.s,
                           parsed.input.c, parsed.input.o, parsed.input.f)
    /\ Analyzed =>
            IsComplexityOf(RulesOfResult.complexity.s,
                           Len(RulesOfResult.conditions.a),
                           Len(RulesOfResult.logicalOperators.a),
                           Len(RulesOfResult.fieldChecks.a))

\* A policy with the counts (3, 1, 2) has been analyzed: it is simple.
C21_Witness ==
    /\ Analyzed
    /\ Len(RulesOfResult.conditions.a) = 3
    /\ Len(RulesOfResult.logicalOperators.a) = 1
    /\ Len(RulesOfResult.fieldChecks.a) = 2
    /\ RulesOfResult.complexity = Str("simple")

(***************************************************************************)
(* C30: the number of conditions that the complexity of a policy counts is *)
(* the number of entries that the root node lists, the nested entries not  *)
(* counted: a root that is only an allOf, an anyOf or a not counts 1       *)
(* whatever is under it, and more than 1 is counted only when the root     *)
(* itself has several operators or several shapes.                         *)
(***************************************************************************)
\* The keys of the root that give an entry of the listing.
ListedKeysOf(root) ==
    {k \in DOMAIN root.f :
        \/ k \in {"allOf", "anyOf", "not", "count"}
        \/ "field" \in DOMAIN root.f /\ k \in Range(ConditionOperators)}

C30_ComplexityCountsTheRootEntriesOnly ==
    Analyzed =>
        LET root == TreeOf(parsed.input)
            c == Len(RulesOfResult.conditions.a) IN
        /\ IsComplexityOf(RulesOfResult.complexity.s, c,
                          Len(RulesOfResult.logicalOperators.a),
                          Len(RulesOfResult.fieldChecks.a))
        /\ (DOMAIN root.f \in {{"allOf"}, {"anyOf"}, {"not"}}) => c = 1
        /\ c > 1 => Cardinality(ListedKeysOf(root)) > 1
        /\ c = Cardinality(ListedKeysOf(root))

\* A policy whose if clause is one allOf of four field nodes has been
\* analyzed: it is simple.
C30_Witness ==
    /\ Analyzed
    /\ DOMAIN TreeOf(parsed.input).f = {"allOf"}
    /\ Len(TreeOf(parsed.input).f.allOf.a) = 4
    /\ Len(RulesOfResult.fieldChecks.a) = 2
    /\ RulesOfResult.complexity = Str("simple")

(***************************************************************************)
(* C22: the resource types of a policy are found in two tiers: when some   *)
(* node of the tree has the field "type" with a string equals operand or   *)
(* strings in its in operand, resourceTypes is exactly the set of those    *)
(* strings; otherwise it is the union of the entries of the field-name     *)
(* table that the field names of the tree match, or the empty list.        *)
(***************************************************************************)
\* The literal types of the nodes with the field "type".
LiteralTypesOf(tree) ==
    UNION { (IF "equals" \in DOMAIN node.f /\ node.f.equals.t = "string"
             THEN {node.f.equals.s} ELSE {})
            \cup (IF "in" \in DOMAIN node.f /\ node.f["in"].t = "array"
                  THEN {v.s : v \in {w \in Range(node.f["in"].a) : w.t = "string"}}
                  ELSE {}) :
            node \in NodesOfField(tree, Str("type")) }

\* The types of the entries of the table that the field name matches.
TableTypesOf(field) ==
    UNION { IF FieldPatterns[i][2] = <<"*">> THEN Range(CommonResourceTypes)
            ELSE Range(FieldPatterns[i][2]) :
            i \in {j \in 1..Len(FieldPatterns) : FieldIncludes(field, FieldPatterns[j][1])} }

IsTwoTierInference(types, tree) ==
    /\ Cardinality(Range(types)) = Len(types)
    /\ Range(types) =
        IF LiteralTypesOf(tree) # {} THEN {Str(type) : type \in LiteralTypesOf(tree)}
        ELSE {Str(type) : type \in UNION {TableTypesOf(node.f.field.s) :
                                            node \in FieldNodes(tree)}}

C22_ResourceTypesAreInferredInTwoTiers ==
    Analyzed =>
        IsTwoTierInference(parsed.outcome.value.f.resourceTypes.a, TreeOf(parsed.input))

(***************************************************************************)
(* C23: a policy whose then clause has an effect has exactly one           *)
(* EffectInfo: hasDetails iff there is a details object, requires-         *)
(* RoleDefinitions iff roleDefinitionIds is not empty, deploysResources    *)
(* iff the effect is the string "deployIfNotExists" and there is a         *)
(* deployment block, modifiesResources iff the effect is the string        *)
(* "modify" and operations is not empty; an effect that refers to a        *)
(* parameter sets neither of the last two.                                 *)
(***************************************************************************)
\* details has the member, a list that is not empty.
HasItemsIn(details, k) ==
    /\ details.t = "object"
    /\ k \in DOMAIN details.f
    /\ details.f[k].t = "array"
    /\ details.f[k].a # <<>>

C23_OneEffectInfoWithItsFlags ==
    Analyzed =>
        LET then == Member(Member(Member(parsed.input, "properties"), "policyRule"), "then")
            effects == parsed.outcome.value.f.effects.a IN
        IF "effect" \in DOMAIN then.f
        THEN LET effect == then.f.effect
                 details == Member(then, "details")
                 deployment == details.t = "object" /\ "deployment" \in DOMAIN details.f
                 info == effects[1].f IN
             /\ Len(effects) = 1
             /\ info.effect = effect
             /\ info.hasDetails = Bool(details.t = "object")
             /\ info.requiresRoleDefinitions = Bool(HasItemsIn(details, "roleDefinitionIds"))
             /\ info.deploysResources = Bool(effect = Str("deployIfNotExists") /\ deployment)
             /\ info.modifiesResources
                    = Bool(effect = Str("modify") /\ HasItemsIn(details, "operations"))
             /\ effect = Str(EffectReference) =>
                    /\ info.deploysResources = Bool(FALSE)
                    /\ info.modifiesResources = Bool(FALSE)
        ELSE effects = <<>>

\* A policy whose effect refers to a parameter and whose details have a
\* deployment block and operations has been analyzed.
C23_Witness ==
    /\ Analyzed
    /\ LET then == Member(Member(Member(parsed.input, "properties"), "policyRule"), "then") IN
        /\ Member(then, "effect") = Str(EffectReference)
        /\ HasItemsIn(Member(then, "details"), "operations")
        /\ "deployment" \in DOMAIN Member(then, "details").f
    /\ Len(parsed.outcome.value.f.effects.a) = 1
    /\ parsed.outcome.value.f.effects.a[1].f.deploysResources = Bool(FALSE)

(***************************************************************************)
(* C24: for a policy that has a properties object, validatePolicy reports  *)
(* isValid = false exactly when displayName, description, mode,            *)
(* policyRule.if or policyRule.then.effect is absent; a missing            *)
(* metadata.category adds a warning and does not change isValid.           *)
(***************************************************************************)
\* The value has the member at the end of the path.
RECURSIVE HasPath(_, _)
HasPath(v, path) ==
    IF path = <<>> THEN TRUE
    ELSE /\ v.t = "object"
         /\ Head(path) \in DOMAIN v.f
         /\ HasPath(v.f[Head(path)], Tail(path))

\* validatePolicy has returned its result for a policy with a properties
\* object.
Validated ==
    /\ parsed.fn = "validatePolicy"
    /\ HasPath(parsed.input, <<"properties">>)
    /\ parsed.input.f.properties.t = "object"
    /\ ~parsed.outcome.threw

RequiredPaths ==
    { <<"displayName">>, <<"description">>, <<"mode">>,
      <<"policyRule", "if">>, <<"policyRule", "then", "effect">> }

SomeRequiredIsAbsent(props) == \E path \in RequiredPaths : ~HasPath(props, path)

\* An entry of properties.parameters has no type.
SomeParameterLacksType(props) ==
    /\ HasPath(props, <<"parameters">>)
    /\ \E k \in DOMAIN props.f.parameters.f : ~HasPath(props.f.parameters.f[k], <<"type">>)

\* The warning is given exactly when metadata.category is absent.
WarnsOfCategory ==
    Includes(parsed.outcome.value.f.warnings.a, Str("Missing category in metadata"))
        <=> ~HasPath(parsed.input.f.properties, <<"metadata", "category">>)

CategoryOrder ==
    << "Compute", "Storage", "Network", "Database", "Web", "Identity", "Security",
       "Monitoring", "Container", "AI" >>

\* inferCategory has returned.
Inferred == extracted.fn = "inferCategory"

\* The lower-cased text of the call.
InferredText ==
    String_toLowerCase(extracted.input.path \o " " \o extracted.input.content
                            \o " " \o extracted.input.description)

\* A keyword of the category is a substring of the text.
MatchesCategory(text, category) ==
    \E i \in 1..Len(CategoryKeywords) :
        /\ CategoryKeywords[i][1] = category
        /\ \E keyword \in CategoryKeywords[i][2] : String_includes(text, keyword)

C25_CategoryIsTheFirstMatch ==
    Inferred =>
        LET category == extracted.result.s
            matching == {i \in 1..Len(CategoryOrder) :
                            MatchesCategory(InferredText, CategoryOrder[i])} IN
        /\ { CategoryKeywords[i][1] : i \in 1..Len(CategoryKeywords) }
                = { CategoryOrder[i] : i \in 1..Len(CategoryOrder) }
        /\ category = "General" <=> matching = {}
        /\ matching # {} =>
                \E i \in matching : /\ category = CategoryOrder[i]
                                    /\ \A j \in matching : i <= j
        /\ (MatchesCategory(InferredText, "Compute") /\ MatchesCategory(InferredText, "Storage"))
                => category = "Compute"

\* The category of a text with keywords of Compute and of Storage ("VM with
\* Blob Storage") has been inferred, and is Compute.
C25_Witness ==
    /\ Inferred
    /\ extracted.input.path = ""
    /\ MatchesCategory(InferredText, "Compute")
    /\ MatchesCategory(InferredText, "Storage")
    /\ String_includes(extracted.input.content, "VM")
    /\ extracted.result = Str("Compute")

(***************************************************************************)
(* C26: the complexity of a template with r resource types, p parameters   *)
(* and o outputs is simple iff 10r + 5p + 3o <= 30, otherwise moderate iff *)
(* 10r + 5p + 3o <= 100, otherwise complex.                                *)
(***************************************************************************)
C26_TemplateComplexityIsAFunctionOfTheCounts ==
    extracted.fn = "assessComplexity" =>
        LET tenths == 10 * extracted.input.r + 5 * extracted.input.p + 3 * extracted.input.o IN
        extracted.result = Str(IF tenths <= 30 THEN "simple"
                               ELSE IF tenths <= 100 THEN "moderate"
                               ELSE "complex")

\* A template with 1 resource type and 30 outputs has been assessed:
\* 1 + 30 * 0.3 is 10, and the template is moderate.
C26_Witness ==
    /\ extracted.fn = "assessComplexity"
    /\ extracted.input = [r |-> 1, p |-> 0, o |-> 30]
    /\ extracted.result = Str("moderate")

(***************************************************************************)
(* C27: in the index that indexTemplates builds, every resource type T of  *)
(* an indexed template has an entry in resourceTypes; the provider of the  *)
(* entry is the part of T before its first "/", and its properties are the *)
(* union of the properties of all the occurrences of T in the indexed      *)
(* templates.                                                              *)
(***************************************************************************)
\* The part of the string before its first "/", or all of it.
BeforeSlash(s) ==
    LET slashes == {i \in 1..Len(s) : SubSeq(s, i, i) = "/"} IN
    IF slashes = {} THEN s
    ELSE SubSeq(s, 1, (CHOOSE i \in slashes : \A j \in slashes : i <= j) - 1)

\* The occurrences of the resource type in the templates.
OccurrencesOf(type, templates) ==
    UNION { { templates[i].resourceTypes[j].f : j \in 1..Len(templates[i].resourceTypes) } :
                i \in 1..Len(templates) }

TypeOccurrences(type, templates) ==
    { occurrence \in OccurrencesOf(type, templates) : occurrence.type = type }

\* The entries of the index's resourceTypes for the type.
IndexEntriesOf(type) ==
    { entry \in Range(indexing.index.f.resourceTypes.a) : entry.type = type }

C27_ResourceTypesHoldTheUnionOfProperties ==
    indexing.stage = "done" =>
        LET templates == indexing.index.f.templates.a IN
        \A i \in 1..Len(templates) : \A j \in 1..Len(templates[i].resourceTypes) :
            LET type == templates[i].resourceTypes[j].f.type IN
            /\ Cardinality(IndexEntriesOf(type)) = 1
            /\ \A entry \in IndexEntriesOf(type) :
                /\ entry.provider = Str(BeforeSlash(type.s))
                /\ Range(entry.commonProperties)
                        = UNION { Range(occurrence.properties.a) :
                                    occurrence \in TypeOccurrences(type, templates) }

(***************************************************************************)
(* C28: a set of a key that is already stored replaces the value, the      *)
(* insertion time and the ttl of its entry and leaves the key where it was *)
(* in the eviction order, relative to the other entries, whatever the      *)
(* size of the store.                                                      *)
(***************************************************************************)
C28_SetOfStoredKeyKeepsItsPosition ==
    [][(last'.op = "set" /\ MapHas(cache, last'.key)) =>
            /\ MapHas(cache', last'.key)
            /\ MapGet(cache', last'.key)
                    = [key |-> last'.key, value |-> last'.value, timestamp |-> now,
                       ttl |-> IF last'.ttl = Undefined THEN DefaultTtl ELSE last'.ttl.n]
            /\ KeepsOrder(cache, cache')]_vars

(***************************************************************************)
(* C29: a get or a has that hits leaves the insertion time and the ttl of  *)
(* the entry as they were; no call but a set of its key writes an entry;   *)
(* and a get or a has at a time later than insertion time + ttl is a miss. *)
(* So an entry written at t with ttl d and not written again is a miss for *)
(* every read after t + d, whatever hits came before.                      *)
(***************************************************************************)
\* The call that was made hit.
IsHit(made) ==
    \/ made.op = "get" /\ made.res # Undefined
    \/ made.op = "has" /\ made.res = Bool(TRUE)

C29_ReadsDoNotExtendTheLifetime ==
    [][/\ (last'.op \in {"get", "has"} /\ IsHit(last')) =>
            /\ MapHas(cache, last'.key) /\ MapHas(cache', last'.key)
            /\ MapGet(cache', last'.key).timestamp = MapGet(cache, last'.key).timestamp
            /\ MapGet(cache', last'.key).ttl = MapGet(cache, last'.key).ttl
       /\ \A e \in Range(cache') :
            e \in Range(cache) \/ (last'.op = "set" /\ last'.key = e.key)
       /\ (last'.op \in {"get", "has"} /\ MapHas(cache, last'.key)) =>
            LET e == MapGet(cache, last'.key) IN
            now > e.timestamp + e.ttl => ~IsHit(last') /\ ~MapHas(cache', last'.key)]_vars

\* A get has hit an entry that was written before the clock advanced, and
\* the entry still has the insertion time of its write.
C29_Witness ==
    /\ last.op = "get"
    /\ IsHit(last)
    /\ MapHas(cache, last.key)
    /\ MapGet(cache, last.key).timestamp < now
    /\ cache[Len(cache)].key = last.key
    /\ Len(cache) = MaxSize

====
